---- MODULE Spec2Model ----
(***************************************************************************)
(* Piece-kb: the task queue, the background processor and the chunk store. *)
(*                                                                         *)
(* The store is the SQLite database of indexing/database.py: the tables    *)
(* files, chunks and tasks, the FTS5 table chunks_fts kept by the triggers *)
(* chunks_ai / chunks_ad / chunks_au, and the vec0 table vec_chunks kept   *)
(* by hand.  One step of the model is one committed transaction (or one    *)
(* read) of the code; the worker (TaskProcessor) and the request threads   *)
(* (upload, add_chunk, remove_chunk, ...) interleave at that granularity.  *)
(***************************************************************************)
EXTENDS Integers, Sequences, FiniteSets, TLC

\* ---------------------------------------------------------------- bounds
MaxFiles == 1
MaxTasks == 2
MaxChunks == 3
MaxRequests == 2
\* processor.py batches by 10 (embedding) and 50 (write); the model keeps
\* the two loops and scales the batch sizes so that several batches occur.
EmbedBatchSize == 1
WriteBatchSize == 2
PdfPages == {1, 25}
MaxClock == 16
MaxCalls == 2
MaxStr == 2
MaxIds == 2
MaxRank == 2
MaxText == 2
MaxBlob == 2
MaxAcquirers == 2
MaxGrants == 3
PoolSize == 2
MaxThreads == 3
MaxPieces == 6
MaxMarker == 2
MaxLines == 3
MaxParts == 3
MaxOps == 4

FileIds == 1..MaxFiles
TaskIds == 1..MaxTasks
MaxChunkId == MaxFiles * MaxChunks + MaxTasks
ChunkIds == 1..MaxChunkId

\* ------------------------------------------------------ program constants
max_retries == 3
retry_delay == 5
rpm == 20
PdfReportEvery == 10

NULL == 0
None == -1
KeepMsg == "keep"
\* retrieval/config.py SearchConfig; the weights 0.4, 0.3, 0.3 in tenths
rrf_k == 60
WeightScale == 10
exact_weight == 4
bm25_weight == 3
vector_weight == 3
final_top_k == 20
\* output_node: round(.., 4); get_docs_tool: limit = min(max_docs, 3)
\* chunking/utils.py find_split_point: the search window before the target,
\* the distance under which the separator's priority decides, the window and
\* the step of the search for a safe position
SearchWindow == 200
NearDistance == 50
FallbackWindow == 400
FallbackStep == 10
ConfidenceDigits == 4
ConfidenceScale == 10000
MaxDocs == 3
\* settings.py EmbeddingConfig.max_tokens
max_tokens == 8192

VARIABLES
    files,      \* files table: id -> [status, orig]
    chunks,     \* chunks table: id -> [file, task, src, title, text]
    bm25,       \* chunks_fts: number of index rows per chunk id
    vec,        \* vec_chunks: number of rows per chunk id
    nextChunk,  \* AUTOINCREMENT counter of chunks
    tasks,      \* tasks table: id -> [status, file, progress, msg, arg]
    scan,       \* file whose record is inserted and whose task is not yet created
    creating,   \* request thread between create_task and its second write
    del,        \* request thread inside delete_chunk, after its two reads
    requests,   \* number of chunk/file requests issued so far
    running,    \* TaskProcessor._running
    pc,         \* position of the worker coroutine
    cur,        \* task being processed, 0 when none
    queue,      \* pending_tasks still to dispatch: <<id, error_message tag>>
    loc,        \* locals of process_task / process_chunk_*_task
    produced,   \* per task: length of the chunker's output (None before)
    wrote,      \* per task: number of chunk rows the task has committed
    embedCalled, \* per task: an embed_documents call has been issued
    txn,        \* open write transaction of insert_chunks_batch: statements done
    seen,       \* what the last retrieval statement saw
    clock,      \* time.time(), in seconds
    last_request_time, \* RateLimiter.last_request_time (None before the first grant)
    emb,        \* the worker at one embedding request: acquire, attempts, backoff
    disk,       \* per file: content of the working file, presence of the original
    prior,      \* per chunk-add task: the file's chunks and working file before it
    removed,    \* chunk ids that a delete_chunk call has removed
    payload,    \* one chunk-add / chunk-update task, its error_message as text
    http,       \* the two MCP servers and the last request they received
    rk,         \* the retrieval process: hash seed, query, workflow state, replies
    upd,        \* one chunk row and its vec_chunks row, with their embedding bytes
    lim,        \* RateLimiter.acquire with several acquirers
    pool,       \* ConnectionPool: queued and checked-out connections
    splitter,   \* one recursive_split call: text, parameters, chunks
    chunking,   \* one chunker call of process_task: extension, content, chunks
    rebuild     \* one file's chunk rows, its working copy and two rebuilds in flight

vars == <<files, chunks, bm25, vec, nextChunk, tasks, scan, creating, del, requests,
          running, pc, cur, queue, loc, produced, wrote, embedCalled, txn, seen,
          clock, last_request_time, emb, disk, prior, removed, payload, http,
          rk, upd, lim, pool, splitter, chunking, rebuild>>

storeVars == <<files, chunks, bm25, vec, nextChunk>>
workerVars == <<running, pc, cur, queue, loc>>
histVars == <<produced, wrote, embedCalled>>
\* retrieval connection and statement-level view of the write transaction
readVars == <<txn, seen>>
\* variables outside the task queue, the worker and the chunk store
\* the clock, the rate limiter and the embedding request in progress
rateVars == <<clock, last_request_time, emb>>
\* the working/ and originals/ directories, and the snapshot a chunk add took
snapVars == <<prior, removed>>
diskVars == <<disk, snapVars>>
\* the task payload as text and the MCP surface
apiVars == <<payload, http>>
\* retrieval calls, the embedding columns, the limiter's acquirers, the
\* connection pool, the text splitter, the chunkers and the rebuilds of a
\* working copy
extVars == <<rk, upd, lim, pool, splitter, chunking, rebuild>>
mainVars == <<storeVars, tasks, scan, creating, del, requests, workerVars, histVars, diskVars,
              apiVars, extVars>>
sideVars == <<readVars, rateVars, diskVars, apiVars, extVars>>
\* the queue, the worker, the store, the disk and the specifications above
baseVars == <<storeVars, tasks, scan, creating, del, requests, workerVars, histVars, diskVars,
              readVars, rateVars, apiVars>>

\* ------------------------------------------------------------- the store
NoFile == [status |-> "none", orig |-> "none"]
NoChunk == [file |-> 0, task |-> 0, src |-> 0, title |-> 0, text |-> 0]
NoTask == [status |-> "none", file |-> NULL, progress |-> 0, msg |-> "NULL", arg |-> 0]
NoCreate == [kind |-> "none", arg |-> 0]
NoDelete == [chunk |-> 0, file |-> 0, remaining |-> 0]
NoTxn == [rows |-> 0, vecs |-> 0, flushed |-> 0, first |-> 0]
NoSeen == [open |-> 0, batch |-> 0, novec |-> 0]
NoEmb == [pc |-> "idle", kind |-> "none", retry |-> 0, attempts |-> 0, err |-> "none",
          issued |-> None, failedAt |-> None, lastOk |-> None, gap |-> None,
          calls |-> 0, task |-> "none"]
NoLocals == [kind |-> "none", file |-> 0, orig |-> "none", n |-> None, err |-> "NULL",
             eDone |-> 0, attempt |-> 0, wDone |-> 0, arg |-> 0, chunk |-> 0,
             pages |-> 0, page |-> 0, last |-> 0, detached |-> FALSE]

\* content of a working file: absent, the converted Markdown of the ingest,
\* or the Markdown rebuild_working_file renders from a list of chunk rows
NoWork == [kind |-> "absent", body |-> <<>>]
Raw == [kind |-> "converted", body |-> <<>>]
Rendered(rows) == [kind |-> "rendered", body |-> rows]
Empty == Rendered(<<>>)
NoDisk == [work |-> NoWork, orig |-> FALSE]
NoPayload == [pc |-> "idle", kind |-> "none", target |-> 0, doc_title |-> <<>>,
              chunk_text |-> <<>>, error_message |-> <<>>, status |-> "none",
              row |-> [id |-> 0, file |-> 0, doc_title |-> <<>>, chunk_text |-> <<>>],
              reply |-> [status |-> "none", chunk_id |-> None]]
NoHttp == [started |-> FALSE, retrieval_auth |-> FALSE, index_auth |-> FALSE,
           auth_enabled |-> FALSE, server |-> "none", tool |-> "none",
           authorization |-> <<>>, outcome |-> "none", seq |-> 0]
NoRk == [pc |-> "idle", seed |-> <<>>, tokens |-> FALSE, exact |-> <<>>, bm25 |-> <<>>,
         vector |-> <<>>, max_results |-> 0, error |-> "none", fused |-> <<>>, results |-> <<>>,
         requested |-> {}, documents |-> {}, not_found |-> {}]
\* a chunks row (chunk_text, embedding) and its vec_chunks row (embedding)
NoRow == [text |-> 0, embedding |-> 0, vector |-> 0]
\* rows: the committed rows; work: the rows as the writing connection sees them
NoUpd == [pc |-> "idle", rows |-> [c \in 1..MaxIds |-> NoRow], work |-> [c \in 1..MaxIds |-> NoRow],
          op |-> "none", chunk |-> 0, text |-> 0, blob |-> 0]
\* the coroutines that call RateLimiter.acquire, the holder of _lock, and the
\* grants so far: how many, the shortest time between two in a row, and
\* whether the last one had to sleep
NoLim == [pc |-> [a \in 1..MaxAcquirers |-> "idle"], wake |-> [a \in 1..MaxAcquirers |-> None],
          lock |-> 0, grants |-> 0, gap |-> None, waited |-> FALSE]
\* ConnectionPool: _pool as the queue of connections, whether a connection
\* has a transaction open, and the threads that use get_db_cursor
NoUse == [pc |-> "idle", conn |-> 0, raised |-> FALSE, ended |-> "none", uses |-> 0]
NoPool == [queue |-> [i \in 1..PoolSize |-> i], txn |-> [c \in 1..PoolSize |-> "none"],
           th |-> [t \in 1..MaxThreads |-> NoUse]]
\* recursive_split: the stripped text, its protected regions, the arguments,
\* the loop variable and the chunks so far as slices text[b:e]
NoSplit == [pc |-> "idle", text |-> <<>>, boundaries |-> {}, chunk_size |-> 0, overlap |-> 0,
            start |-> 0, chunks |-> <<>>]
\* one chunker call: the extension process_task passes to the factory, the
\* converted content as lines, the chunker chosen and its output
NoChunking == [pc |-> "idle", file_extension |-> "", content |-> <<>>, parts |-> 0,
               chunker |-> "", chunks |-> <<>>]
\* the chunk rows of one file as committed, its working copy, and the
\* request thread and the worker each inside one chunk operation
NoRebuild == [file |-> "none", rows |-> <<>>, work |-> NoWork, next |-> 1, ops |-> 0,
              th |-> [t \in {"request", "worker"} |-> [pc |-> "idle", chunks |-> <<>>]]]
NoPrior == [chunk |-> 0, file |-> 0, rows |-> <<>>, work |-> NoWork]

FileExists(f) == f \in FileIds /\ files[f].status \notin {"none", "gone"}
ChunkExists(c) == c \in ChunkIds /\ chunks[c].file # 0
ChunksOf(f) == {c \in ChunkIds : chunks[c].file = f}
TaskExists(t) == t \in TaskIds /\ tasks[t].status # "none"

\* get_connection() is not among the sources; the store enforces foreign keys
get_connection_foreign_keys == TRUE

\* database.py: CREATE TABLE tasks ... status DEFAULT 'pending'
\* task_service.create_task: INSERT ... VALUES (?, 'pending', 0, ?, ?)
create_task(tk, t) ==
    [tk EXCEPT ![t] = [status |-> "pending", file |-> NULL, progress |-> 0,
                       msg |-> "NULL", arg |-> 0]]

\* task_service.update_task_status: status is always written; progress,
\* error_message and file_id only when given.  A missing row is a no-op.
update_task_status(tk, t, status, progress, error_message, file_id) ==
    IF t \notin TaskIds \/ tk[t].status = "none" THEN tk
    ELSE [tk EXCEPT ![t] =
            [status |-> status,
             file |-> IF file_id = None THEN tk[t].file ELSE file_id,
             progress |-> IF progress = None THEN tk[t].progress ELSE progress,
             msg |-> IF error_message = KeepMsg THEN tk[t].msg ELSE error_message,
             arg |-> tk[t].arg]]

\* file_service.update_file_status: UPDATE files SET status WHERE id = ?
update_file_status(fs, f, status) ==
    IF f \in FileIds /\ fs[f].status \notin {"none", "gone"}
    THEN [fs EXCEPT ![f].status = status]
    ELSE fs

\* task_service.get_pending_tasks: status = 'pending' ORDER BY created_at ASC.
\* created_at is taken at creation, so it grows with the task id.
RECURSIVE PendingFrom(_)
PendingFrom(t) ==
    IF t > MaxTasks THEN <<>>
    ELSE (IF tasks[t].status = "pending" THEN <<<<t, tasks[t].msg>>>> ELSE <<>>)
         \o PendingFrom(t + 1)

get_pending_tasks == PendingFrom(1)

\* database.py triggers chunks_ai / chunks_ad on chunks_fts
chunks_ai(b, c) == [b EXCEPT ![c] = @ + 1]
chunks_ad(b, c) == [b EXCEPT ![c] = IF @ > 0 THEN @ - 1 ELSE 0]
\* trigger chunks_au: 'delete' of the old row, insert of the new one
chunks_au(b, c) == chunks_ai(chunks_ad(b, c), c)

\* INSERT INTO vec_chunks (chunk_id, embedding) / DELETE FROM vec_chunks
vec_insert(v, c) == [v EXCEPT ![c] = @ + 1]
vec_delete(v, S) == [c \in ChunkIds |-> IF c \in S THEN 0 ELSE v[c]]

\* FOREIGN KEY (file_id) REFERENCES files(id) ON DELETE CASCADE, with
\* chunks_ad fired for every cascaded row
cascade_chunks(ch, f) == [c \in ChunkIds |-> IF ch[c].file = f THEN NoChunk ELSE ch[c]]
cascade_bm25(b, ch, f) == [c \in ChunkIds |-> IF ch[c].file = f THEN chunks_ad(b, c)[c] ELSE b[c]]
\* tasks: FOREIGN KEY (file_id) REFERENCES files(id) ON DELETE SET NULL
set_null_tasks(tk, f) == [t \in TaskIds |-> IF tk[t].file = f THEN [tk[t] EXCEPT !.file = NULL] ELSE tk[t]]

\* file_service.delete_file: one get_db_cursor transaction (the unlinks that
\* follow it are unlink_files)
delete_file_txn(f) ==
    IF FileExists(f)
    THEN /\ vec' = vec_delete(vec, ChunksOf(f))
         /\ files' = [files EXCEPT ![f].status = "gone"]
         /\ chunks' = cascade_chunks(chunks, f)
         /\ bm25' = cascade_bm25(bm25, chunks, f)
         /\ tasks' = set_null_tasks(tasks, f)
    ELSE UNCHANGED <<vec, files, chunks, bm25, tasks>>

delete_chunk_txn_m(c) ==
    /\ vec' = vec
    /\ chunks' = [chunks EXCEPT ![c] = NoChunk]
    /\ bm25' = IF ChunkExists(c) THEN chunks_ad(bm25, c) ELSE bm25

\* chunk_service.delete_chunk, the branch that deletes one chunk
delete_chunk_txn(c) ==
    /\ vec' = vec_delete(vec, {c})
    /\ chunks' = [chunks EXCEPT ![c] = NoChunk]
    /\ bm25' = IF ChunkExists(c) THEN chunks_ad(bm25, c) ELSE bm25

\* one INSERT INTO chunks (trigger chunks_ai) and its vec_chunks row
insert_chunk(st, f, t, k) ==
    LET c == st.next IN
    [chunks |-> [st.chunks EXCEPT ![c] = [file |-> f, task |-> t, src |-> k, title |-> 0, text |-> 0]],
     bm25 |-> chunks_ai(st.bm25, c),
     vec |-> vec_insert(st.vec, c),
     next |-> c + 1]

\* file_service.get_chunks_by_file_id: SELECT id, doc_title, chunk_text ...
\* ORDER BY id, from chunk id c upwards
RECURSIVE get_chunks_by_file_id(_, _, _)
get_chunks_by_file_id(ch, f, c) ==
    IF c > MaxChunkId THEN <<>>
    ELSE (IF ch[c].file = f THEN <<<<c, ch[c].title, ch[c].text>>>> ELSE <<>>)
         \o get_chunks_by_file_id(ch, f, c + 1)

\* chunk_service.rebuild_working_file: nothing without the file row, "" without
\* chunks, else one heading-and-text block per chunk in id order
rebuild_working_file(d, fs, ch, f) ==
    IF f \in FileIds /\ fs[f].status \notin {"none", "gone"}
    THEN [d EXCEPT ![f].work = Rendered(get_chunks_by_file_id(ch, f, 1))]
    ELSE d

unlink_files_m(d, f) == [d EXCEPT ![f].work = NoWork]

\* file_service.delete_file after its transaction: unlink the working file and
\* the original file
unlink_files(d, f) == [d EXCEPT ![f] = NoDisk]

\* ------------------------------------------------------ request threads
FreeFile == CHOOSE f \in FileIds : files[f].status = "none" /\ \A g \in FileIds : g < f => files[g].status # "none"
FreeTask == CHOOSE t \in TaskIds : tasks[t].status = "none" /\ \A u \in TaskIds : u < t => tasks[u].status # "none"
HasFreeFile == \E f \in FileIds : files[f].status = "none"
HasFreeTask == \E t \in TaskIds : tasks[t].status = "none"

\* handle_upload / upload_file / scan_and_index_new_files: insert_file_record
insert_file_record ==
    /\ HasFreeFile /\ scan = 0
    /\ \E orig \in {"pdf", "md"} :
          files' = [files EXCEPT ![FreeFile] = [status |-> "pending", orig |-> orig]]
    /\ scan' = FreeFile
    /\ disk' = [disk EXCEPT ![FreeFile] = [work |-> Empty, orig |-> TRUE]]
    /\ UNCHANGED <<readVars, rateVars, apiVars, extVars, snapVars, chunks, bm25, vec, nextChunk, tasks, creating, del, requests,
                   workerVars, histVars>>

\* ... then task_service.create_task(filename)
upload_create_task ==
    /\ scan # 0 /\ HasFreeTask
    /\ tasks' = create_task(tasks, FreeTask)
    /\ creating' = [creating EXCEPT ![FreeTask] = [kind |-> "INGEST", arg |-> scan]]
    /\ scan' = 0
    /\ UNCHANGED <<sideVars, storeVars, del, requests, workerVars, histVars>>

\* ... then task_service.update_task_status(task_id, "pending", file_id=file_id)
upload_attach_file(t) ==
    /\ creating[t].kind = "INGEST"
    /\ tasks' = IF get_connection_foreign_keys => FileExists(creating[t].arg)
                THEN update_task_status(tasks, t, "pending", None, KeepMsg, creating[t].arg)
                ELSE tasks
    /\ creating' = [creating EXCEPT ![t] = NoCreate]
    /\ UNCHANGED <<sideVars, storeVars, scan, del, requests, workerVars, histVars>>

\* file_service.create_empty_file
create_empty_file ==
    /\ HasFreeFile
    /\ files' = [files EXCEPT ![FreeFile] = [status |-> "empty", orig |-> "none"]]
    /\ disk' = [disk EXCEPT ![FreeFile] = [work |-> Empty, orig |-> FALSE]]
    /\ UNCHANGED <<readVars, rateVars, apiVars, extVars, snapVars, chunks, bm25, vec, nextChunk, tasks, scan, creating, del, requests,
                   workerVars, histVars>>

\* chunk_service.create_chunk_add_task: file check, create_task
create_chunk_add_task(f) ==
    /\ FileExists(f) /\ HasFreeTask
    /\ tasks' = create_task(tasks, FreeTask)
    /\ creating' = [creating EXCEPT ![FreeTask] = [kind |-> "CHUNK_ADD", arg |-> f]]
    /\ UNCHANGED <<sideVars, storeVars, scan, del, requests, workerVars, histVars>>

\* chunk_service.create_chunk_update_task: chunk check, create_task
create_chunk_update_task(c) ==
    /\ ChunkExists(c) /\ HasFreeTask
    /\ tasks' = create_task(tasks, FreeTask)
    /\ creating' = [creating EXCEPT ![FreeTask] = [kind |-> "CHUNK_UPDATE", arg |-> c]]
    /\ UNCHANGED <<sideVars, storeVars, scan, del, requests, workerVars, histVars>>

\* ... then UPDATE tasks SET error_message = 'CHUNK_ADD|..' / 'CHUNK_UPDATE|..'
store_task_data(t) ==
    /\ creating[t].kind \in {"CHUNK_ADD", "CHUNK_UPDATE"}
    /\ tasks' = [tasks EXCEPT ![t].msg = creating[t].kind, ![t].arg = creating[t].arg]
    /\ creating' = [creating EXCEPT ![t] = NoCreate]
    /\ UNCHANGED <<sideVars, storeVars, scan, del, requests, workerVars, histVars>>

\* file_service.delete_file (routes.delete_file, remove_file, _do_delete_file)
delete_file(f) ==
    /\ FileExists(f) /\ requests < MaxRequests
    /\ delete_file_txn(f)
    /\ disk' = unlink_files(disk, f)
    /\ requests' = requests + 1
    /\ UNCHANGED <<readVars, rateVars, apiVars, extVars, snapVars, nextChunk, scan, creating, del, workerVars, histVars>>

\* chunk_service.delete_chunk: the two reads (file_id, COUNT(*))
delete_chunk_read(c) ==
    /\ ChunkExists(c) /\ del.chunk = 0 /\ requests < MaxRequests
    /\ del' = [chunk |-> c, file |-> chunks[c].file,
               remaining |-> Cardinality(ChunksOf(chunks[c].file))]
    /\ requests' = requests + 1
    /\ UNCHANGED <<sideVars, storeVars, tasks, scan, creating, workerVars, histVars>>

\* chunk_service.delete_chunk: delete_file when remaining == 1, else the
\* two DELETEs, the commit and rebuild_working_file
delete_chunk_write ==
    /\ del.chunk # 0
    /\ IF del.remaining = 1
       THEN /\ delete_file_txn(del.file)
            /\ disk' = IF FileExists(del.file) THEN unlink_files(disk, del.file) ELSE disk
       ELSE /\ delete_chunk_txn(del.chunk) /\ UNCHANGED <<files, tasks>>
            /\ disk' = rebuild_working_file(disk, files, chunks', del.file)
    /\ del' = NoDelete
    /\ removed' = removed \cup {del.chunk}
    /\ UNCHANGED <<readVars, rateVars, apiVars, extVars, prior, nextChunk, scan, creating, requests, workerVars, histVars>>

\* chunk_service.update_chunk_title: UPDATE chunks SET doc_title (chunks_au),
\* commit, rebuild_working_file
update_chunk_title(c) ==
    /\ ChunkExists(c) /\ chunks[c].title = 0 /\ requests < MaxRequests
    /\ chunks' = [chunks EXCEPT ![c].title = 1]
    /\ bm25' = chunks_au(bm25, c)
    /\ disk' = rebuild_working_file(disk, files, chunks', chunks[c].file)
    /\ requests' = requests + 1
    /\ UNCHANGED <<readVars, rateVars, apiVars, extVars, snapVars, files, vec, nextChunk, tasks, scan, creating, del, workerVars, histVars>>

RequestNext ==
    \/ insert_file_record
    \/ upload_create_task
    \/ \E t \in TaskIds : upload_attach_file(t)
    \/ create_empty_file
    \/ \E f \in FileIds : create_chunk_add_task(f)
    \/ \E c \in ChunkIds : create_chunk_update_task(c)
    \/ \E t \in TaskIds : store_task_data(t)
    \/ \E f \in FileIds : delete_file(f)
    \/ \E c \in ChunkIds : delete_chunk_read(c)
    \/ delete_chunk_write
    \/ \E c \in ChunkIds : update_chunk_title(c)

\* ------------------------------------------------------------ the worker
Finish == pc' = "next" /\ cur' = 0 /\ loc' = NoLocals
Halt == pc' = "halted" /\ cur' = 0 /\ queue' = <<>> /\ loc' = NoLocals
Goto(p) == pc' = p /\ UNCHANGED cur

\* positions at which the coroutine is suspended in an await
IngestPoints == {"p_get", "p_fail", "p_getfile", "p_start", "pdf", "pdf_cb", "c10", "c15",
                 "k20", "k25", "k30", "ferr", "tfail", "key", "e_call", "e_prog",
                 "w", "w_cb", "f_idx", "done", "x1", "x2"}
ThreadPoints == {"pdf_cb", "w", "w_cb"}
AwaitPoints == IngestPoints \cup {"idle", "c_emb"}

\* TaskProcessor.start
start ==
    /\ ~running /\ pc = "halted"
    /\ running' = TRUE
    /\ pc' = "idle" /\ cur' = 0 /\ queue' = <<>> /\ loc' = NoLocals
    /\ UNCHANGED <<sideVars, storeVars, tasks, scan, creating, del, requests, histVars>>

\* TaskProcessor.stop: _running = False, cancel() of the loop at its await.
\* CancelledError is not an Exception, so no handler of process_task runs;
\* a to_thread call already running (PDF conversion, insert_chunks_batch)
\* goes on to its end.
stop ==
    /\ running /\ pc \in AwaitPoints
    /\ running' = FALSE
    /\ IF pc \in ThreadPoints
       THEN loc' = [loc EXCEPT !.detached = TRUE] /\ UNCHANGED <<pc, cur, queue>>
       ELSE Halt
    /\ UNCHANGED <<sideVars, storeVars, tasks, scan, creating, del, requests, histVars>>

\* TaskProcessor._process_loop: pending_tasks = get_pending_tasks(), or sleep(1)
process_loop ==
    /\ running /\ pc = "idle"
    /\ queue' = get_pending_tasks
    /\ pc' = IF get_pending_tasks = <<>> THEN "idle" ELSE "next"
    /\ UNCHANGED <<sideVars, storeVars, tasks, scan, creating, del, requests, running, cur, loc, histVars>>

DispatchKind(em) == IF em = "CHUNK_UPDATE" THEN "CHUNK_UPDATE"
                    ELSE IF em = "CHUNK_ADD" THEN "CHUNK_ADD" ELSE "INGEST"

\* the for loop of _process_loop and TaskProcessor._dispatch_task: the
\* handler is chosen from the error_message read by get_pending_tasks
dispatch_task ==
    /\ running /\ pc = "next"
    /\ IF queue = <<>>
       THEN pc' = "idle" /\ UNCHANGED <<cur, queue, loc>>
       ELSE /\ cur' = Head(queue)[1]
            /\ queue' = Tail(queue)
            /\ loc' = [NoLocals EXCEPT !.kind = DispatchKind(Head(queue)[2])]
            /\ pc' = IF DispatchKind(Head(queue)[2]) = "INGEST" THEN "p_get" ELSE "c_get"
    /\ UNCHANGED <<sideVars, storeVars, tasks, scan, creating, del, requests, running, histVars>>

\* process_task: task = get_task(task_id); file_id = task.get("file_id")
pt_get_task ==
    /\ running /\ pc = "p_get"
    /\ IF tasks[cur].file = NULL
       THEN loc' = [loc EXCEPT !.err = "NoFile"] /\ Goto("p_fail")
       ELSE loc' = [loc EXCEPT !.file = tasks[cur].file] /\ Goto("p_getfile")
    /\ UNCHANGED <<sideVars, storeVars, tasks, scan, creating, del, requests, running, queue, histVars>>

\* process_task: file_info = get_file_by_id(file_id)
pt_get_file ==
    /\ running /\ pc = "p_getfile"
    /\ IF FileExists(loc.file)
       THEN loc' = [loc EXCEPT !.orig = files[loc.file].orig] /\ Goto("p_start")
       ELSE loc' = [loc EXCEPT !.err = "FileMissing"] /\ Goto("p_fail")
    /\ UNCHANGED <<sideVars, storeVars, tasks, scan, creating, del, requests, running, queue, histVars>>

\* process_task: update_task_status(task_id, "failed", error_message=...) and
\* return, for a task without file_id or whose file is gone
pt_fail_early ==
    /\ running /\ pc = "p_fail"
    /\ tasks' = update_task_status(tasks, cur, "failed", None, loc.err, None)
    /\ Finish
    /\ UNCHANGED <<sideVars, storeVars, scan, creating, del, requests, running, queue, histVars>>

\* process_task: update_task_status(task_id, "processing", progress=5)
pt_start ==
    /\ running /\ pc = "p_start"
    /\ tasks' = update_task_status(tasks, cur, "processing", 5, KeepMsg, None)
    /\ \E original_exists \in BOOLEAN :
          Goto(IF original_exists /\ loc.orig = "pdf" THEN "pdf" ELSE "c10")
    /\ UNCHANGED <<sideVars, storeVars, scan, creating, del, requests, running, queue, loc, histVars>>

\* convert_pdf_to_markdown: pymupdf.open, total_pages = len(doc)
pt_pdf_open ==
    /\ running /\ pc = "pdf"
    /\ \/ \E total_pages \in PdfPages :
             /\ loc' = [loc EXCEPT !.pages = total_pages, !.page = 0, !.last = 5]
             /\ Goto("pdf_cb")
       \/ UNCHANGED loc /\ Goto("x1")
    /\ UNCHANGED <<sideVars, storeVars, tasks, scan, creating, del, requests, running, queue, histVars>>

\* pdf_progress_callback: progress = 5 + int(10 * current_page / total_pages)
pdf_progress(current_page, total_pages) == 5 + (10 * current_page) \div total_pages

\* convert_pdf_to_markdown: the callback every 10 pages and the last one;
\* the status is written only when the progress value changed
pt_pdf_callback ==
    /\ pc = "pdf_cb" /\ (running \/ loc.detached)
    /\ LET more == loc.page + PdfReportEvery <= loc.pages
           current_page == IF more THEN loc.page + PdfReportEvery ELSE loc.pages
           progress == pdf_progress(current_page, loc.pages)
       IN /\ tasks' = IF progress # loc.last
                      THEN update_task_status(tasks, cur, "processing", progress, KeepMsg, None)
                      ELSE tasks
          /\ IF more
             THEN loc' = [loc EXCEPT !.page = current_page, !.last = progress]
                  /\ UNCHANGED <<pc, cur, queue>>
             ELSE IF loc.detached
                  THEN Halt
                  ELSE loc' = [loc EXCEPT !.page = current_page, !.last = progress]
                       /\ Goto("k20") /\ UNCHANGED queue
    /\ UNCHANGED <<sideVars, storeVars, scan, creating, del, requests, running, histVars>>

\* process_task: update_task_status(.., progress=10) before convert_to_markdown
\* or before reading the working file
pt_convert_begin ==
    /\ running /\ pc = "c10"
    /\ tasks' = update_task_status(tasks, cur, "processing", 10, KeepMsg, None)
    /\ Goto("c15")
    /\ UNCHANGED <<sideVars, storeVars, scan, creating, del, requests, running, queue, loc, histVars>>

\* process_task: content = convert_to_markdown(..) (may raise), progress=15
pt_convert_end ==
    /\ running /\ pc = "c15"
    /\ \/ /\ tasks' = update_task_status(tasks, cur, "processing", 15, KeepMsg, None)
          /\ Goto("k20")
       \/ UNCHANGED tasks /\ Goto("x1")
    /\ UNCHANGED <<sideVars, storeVars, scan, creating, del, requests, running, queue, loc, histVars>>

\* process_task: the converted content written to the working file,
\* update_task_status(.., progress=20)
pt_chunk_begin ==
    /\ running /\ pc = "k20"
    /\ \/ /\ tasks' = update_task_status(tasks, cur, "processing", 20, KeepMsg, None)
          /\ disk' = [disk EXCEPT ![loc.file].work = Raw]
          /\ Goto("k25")
       \/ UNCHANGED <<tasks, disk>> /\ Goto("x1")
    /\ UNCHANGED <<readVars, rateVars, apiVars, extVars, snapVars, storeVars, scan, creating, del, requests, running, queue, loc, histVars>>

\* process_task: ChunkerFactory.get_chunker, update_task_status(.., progress=25)
pt_get_chunker ==
    /\ running /\ pc = "k25"
    /\ tasks' = update_task_status(tasks, cur, "processing", 25, KeepMsg, None)
    /\ Goto("k30")
    /\ UNCHANGED <<sideVars, storeVars, scan, creating, del, requests, running, queue, loc, histVars>>

\* process_task: `if not chunks`
no_chunks_m(n) == FALSE
no_chunks(n) == n = 0

\* process_task: chunks = chunker.chunk(content, base_name), progress=30;
\* ValueError is handled apart from the other exceptions
pt_chunk ==
    /\ running /\ pc = "k30"
    /\ \/ \E n \in 0..MaxChunks :
             /\ tasks' = update_task_status(tasks, cur, "processing", 30, KeepMsg, None)
             /\ produced' = [produced EXCEPT ![cur] = n]
             /\ IF no_chunks(n)
                THEN loc' = [loc EXCEPT !.n = n, !.err = "NoChunks"] /\ Goto("ferr")
                ELSE loc' = [loc EXCEPT !.n = n] /\ Goto("key")
       \/ /\ loc' = [loc EXCEPT !.err = "ValueError"] /\ Goto("ferr")
          /\ UNCHANGED <<tasks, produced>>
       \/ UNCHANGED <<tasks, produced, loc>> /\ Goto("x1")
    /\ UNCHANGED <<sideVars, storeVars, scan, creating, del, requests, running, queue, wrote, embedCalled>>

\* process_task: get_embedding_config(); without api_key the file is set to
\* error first; with it the first batch waits for rate_limiter.acquire(1)
pt_check_api_key ==
    /\ running /\ pc = "key"
    /\ \/ /\ files' = update_file_status(files, loc.file, "error")
          /\ loc' = [loc EXCEPT !.err = "NoApiKey"]
          /\ Goto("tfail")
       \/ UNCHANGED <<files, loc>> /\ Goto("e_call")
    /\ UNCHANGED <<sideVars, chunks, bm25, vec, nextChunk, tasks, scan, creating, del, requests,
                   running, queue, histVars>>

\* process_task: update_file_status(file_id, "error") of the handled failures
pt_file_error ==
    /\ running /\ pc = "ferr"
    /\ files' = update_file_status(files, loc.file, "error")
    /\ Goto("tfail")
    /\ UNCHANGED <<sideVars, chunks, bm25, vec, nextChunk, tasks, scan, creating, del, requests,
                   running, queue, loc, histVars>>

\* process_task: update_task_status(task_id, "failed", error_message=..); return
pt_task_failed ==
    /\ running /\ pc = "tfail"
    /\ tasks' = update_task_status(tasks, cur, "failed", None, loc.err, None)
    /\ Finish
    /\ UNCHANGED <<sideVars, storeVars, scan, creating, del, requests, running, queue, histVars>>

Min(a, b) == IF a < b THEN a ELSE b
Max(a, b) == IF a >= b THEN a ELSE b
CeilDiv(a, b) == (a + b - 1) \div b

\* process_task: progress = 30 + int(50 * batch_idx / total_batches)
embed_progress(batch_idx, total_batches) == 30 + (50 * batch_idx) \div total_batches

\* insert_chunks_batch: progress = 85 + int(15 * batch_end / total_chunks)
write_progress_m(end, total_chunks) == 85 + 15 * end
write_progress(end, total_chunks) == 85 + (15 * end) \div total_chunks

\* process_task: one attempt of embed_documents(batch) inside the retry loop
pt_embed ==
    /\ running /\ pc = "e_call"
    /\ embedCalled' = [embedCalled EXCEPT ![cur] = TRUE]
    /\ \/ /\ loc' = [loc EXCEPT !.eDone = Min(loc.eDone + EmbedBatchSize, loc.n), !.attempt = 0]
          /\ Goto("e_prog")
       \/ \* "429" / "403" / "rate limit": sleep and retry, or re-raise
          IF loc.attempt < max_retries - 1
          THEN loc' = [loc EXCEPT !.attempt = loc.attempt + 1] /\ Goto("e_call")
          ELSE UNCHANGED loc /\ Goto("x1")
       \/ UNCHANGED loc /\ Goto("x1")
    /\ UNCHANGED <<sideVars, storeVars, tasks, scan, creating, del, requests, running, queue,
                   produced, wrote>>

\* process_task: `for i in range(0, len(texts), batch_size)` has another batch
embed_loop_m(eDone, n) == FALSE
embed_loop(eDone, n) == eDone < n

\* process_task: progress after a batch, then the next batch or the write
pt_embed_progress ==
    /\ running /\ pc = "e_prog"
    /\ tasks' = update_task_status(tasks, cur, "processing",
                    embed_progress(CeilDiv(loc.eDone, EmbedBatchSize), CeilDiv(loc.n, EmbedBatchSize)),
                    KeepMsg, None)
    /\ Goto(IF embed_loop(loc.eDone, loc.n) THEN "e_call" ELSE "w")
    /\ UNCHANGED <<sideVars, storeVars, scan, creating, del, requests, running, queue, loc, histVars>>

\* insert_chunks_batch: batch_end = min(batch_start + batch_size, total_chunks)
batch_end_m(batch_start, total_chunks) == batch_start + WriteBatchSize
batch_end(batch_start, total_chunks) == Min(batch_start + WriteBatchSize, total_chunks)

\* insert_chunks_batch: the rows of one batch, in source order
RECURSIVE insert_rows(_, _, _, _, _)
insert_rows(st, f, t, k, last) ==
    IF k > last THEN st
    ELSE insert_rows(insert_chunk(st, f, t, k), f, t, k + 1, last)

\* insert_chunks_batch: one `with get_db_cursor()` block; an exception
\* (the file row is gone, the vec0 insert is refused) rolls the batch back
pt_write_batch ==
    /\ pc = "w" /\ (running \/ loc.detached)
    /\ LET last == batch_end(loc.wDone, loc.n)
           st == insert_rows([chunks |-> chunks, bm25 |-> bm25, vec |-> vec, next |-> nextChunk],
                             loc.file, cur, loc.wDone + 1, last)
       IN \/ /\ FileExists(loc.file)
             /\ chunks' = st.chunks /\ bm25' = st.bm25 /\ vec' = st.vec /\ nextChunk' = st.next
             /\ wrote' = [wrote EXCEPT ![cur] = @ + (last - loc.wDone)]
             /\ loc' = [loc EXCEPT !.wDone = last]
             /\ Goto("w_cb") /\ UNCHANGED queue
          \/ /\ UNCHANGED <<chunks, bm25, vec, nextChunk, wrote>>
             /\ IF loc.detached THEN Halt ELSE (UNCHANGED <<loc, queue>> /\ Goto("x1"))
    /\ UNCHANGED <<sideVars, files, tasks, scan, creating, del, requests, running, produced, embedCalled>>

\* insert_chunks_batch: progress_callback(progress) after the batch
pt_write_progress ==
    /\ pc = "w_cb" /\ (running \/ loc.detached)
    /\ tasks' = update_task_status(tasks, cur, "processing",
                                   write_progress(loc.wDone, loc.n), KeepMsg, None)
    /\ IF loc.wDone < loc.n
       THEN Goto("w") /\ UNCHANGED <<loc, queue>>
       ELSE IF loc.detached THEN Halt ELSE Goto("f_idx") /\ UNCHANGED <<loc, queue>>
    /\ UNCHANGED <<sideVars, storeVars, scan, creating, del, requests, running, histVars>>

\* process_task: update_file_status(file_id, "indexed")
pt_file_indexed ==
    /\ running /\ pc = "f_idx"
    /\ files' = update_file_status(files, loc.file, "indexed")
    /\ Goto("done")
    /\ UNCHANGED <<sideVars, chunks, bm25, vec, nextChunk, tasks, scan, creating, del, requests,
                   running, queue, loc, histVars>>

\* process_task: update_task_status(task_id, "completed", progress=100)
pt_completed ==
    /\ running /\ pc = "done"
    /\ tasks' = update_task_status(tasks, cur, "completed", 100, KeepMsg, None)
    /\ Finish
    /\ UNCHANGED <<sideVars, storeVars, scan, creating, del, requests, running, queue, histVars>>

\* update_task_status(task_id, "failed", error_message=str(e))
fail_task_m(tk, t) == tk
fail_task(tk, t) == update_task_status(tk, t, "failed", None, "Exception", None)

\* process_task, except Exception: the task is failed first ...
pt_except_task ==
    /\ running /\ pc = "x1"
    /\ tasks' = fail_task(tasks, cur)
    /\ Goto("x2")
    /\ UNCHANGED <<sideVars, storeVars, scan, creating, del, requests, running, queue, loc, histVars>>

\* ... and then update_file_status(file_id, "error")
pt_except_file ==
    /\ running /\ pc = "x2"
    /\ files' = update_file_status(files, loc.file, "error")
    /\ Finish
    /\ UNCHANGED <<sideVars, chunks, bm25, vec, nextChunk, tasks, scan, creating, del, requests,
                   running, queue, histVars>>

\* ---------------------------------------- chunk-add / chunk-update tasks
\* process_chunk_add_task / process_chunk_update_task: get_task, the prefix
\* check and the parse of the payload
pc_get_task ==
    /\ running /\ pc = "c_get"
    /\ IF tasks[cur].msg = loc.kind
       THEN /\ loc' = [loc EXCEPT !.arg = tasks[cur].arg]
            /\ Goto("c_p10") /\ UNCHANGED tasks
       ELSE /\ tasks' = update_task_status(tasks, cur, "failed", None, "Invalid", None)
            /\ Finish
    /\ UNCHANGED <<sideVars, storeVars, scan, creating, del, requests, running, queue, histVars>>

\* update_task_status(task_id, "processing", progress=10)
pc_start ==
    /\ running /\ pc = "c_p10"
    /\ tasks' = update_task_status(tasks, cur, "processing", 10, KeepMsg, None)
    /\ Goto("c_key")
    /\ UNCHANGED <<sideVars, storeVars, scan, creating, del, requests, running, queue, loc, histVars>>

\* get_embedding_config: failed without api_key, else progress=30
pc_check_api_key ==
    /\ running /\ pc = "c_key"
    /\ \/ /\ tasks' = update_task_status(tasks, cur, "failed", None, "NoApiKey", None)
          /\ Finish
       \/ /\ tasks' = update_task_status(tasks, cur, "processing", 30, KeepMsg, None)
          /\ Goto("c_emb") /\ UNCHANGED loc
    /\ UNCHANGED <<sideVars, storeVars, scan, creating, del, requests, running, queue, histVars>>

\* await rate_limiter.acquire(1); embed_documents([chunk_text])
pc_embed ==
    /\ running /\ pc = "c_emb"
    /\ embedCalled' = [embedCalled EXCEPT ![cur] = TRUE]
    /\ \/ Goto("c_p70")
       \/ Goto("c_fail")
    /\ UNCHANGED <<sideVars, storeVars, tasks, scan, creating, del, requests, running, queue, loc,
                   produced, wrote>>

\* update_task_status(task_id, "processing", progress=70)
pc_embedded ==
    /\ running /\ pc = "c_p70"
    /\ tasks' = update_task_status(tasks, cur, "processing", 70, KeepMsg, None)
    /\ Goto("c_write")
    /\ UNCHANGED <<sideVars, storeVars, scan, creating, del, requests, running, queue, loc, histVars>>

\* process_chunk_add_task: INSERT chunks, INSERT vec_chunks,
\* UPDATE files SET status = 'indexed' WHERE status = 'empty', commit
add_chunk_txn ==
    LET st == insert_chunk([chunks |-> chunks, bm25 |-> bm25, vec |-> vec, next |-> nextChunk],
                           loc.arg, cur, 0)
    IN /\ get_connection_foreign_keys => FileExists(loc.arg)
       /\ chunks' = st.chunks /\ bm25' = st.bm25 /\ vec' = st.vec /\ nextChunk' = st.next
       /\ files' = IF FileExists(loc.arg) /\ files[loc.arg].status = "empty"
                   THEN [files EXCEPT ![loc.arg].status = "indexed"] ELSE files
       /\ wrote' = [wrote EXCEPT ![cur] = @ + 1]
       /\ loc' = [loc EXCEPT !.chunk = nextChunk]
       /\ prior' = [prior EXCEPT ![cur] =
                       [chunk |-> nextChunk, file |-> loc.arg,
                        rows |-> get_chunks_by_file_id(chunks, loc.arg, 1),
                        work |-> disk[loc.arg].work]]
       /\ UNCHANGED removed

\* process_chunk_update_task: SELECT file_id, UPDATE chunks (chunks_au),
\* UPDATE vec_chunks, commit
update_chunk_txn ==
    /\ ChunkExists(loc.arg)
    /\ chunks' = [chunks EXCEPT ![loc.arg].text = 1]
    /\ bm25' = chunks_au(bm25, loc.arg)
    /\ loc' = [loc EXCEPT !.chunk = loc.arg]
    /\ UNCHANGED <<vec, nextChunk, files, wrote, snapVars>>

\* the database section of both handlers, then rebuild_working_file(file_id);
\* any exception goes to the handler
pc_write ==
    /\ running /\ pc = "c_write"
    /\ \/ /\ IF loc.kind = "CHUNK_ADD" THEN add_chunk_txn ELSE update_chunk_txn
          /\ disk' = rebuild_working_file(disk, files', chunks',
                         IF loc.kind = "CHUNK_ADD" THEN loc.arg ELSE chunks[loc.arg].file)
          /\ Goto("c_done")
       \/ /\ UNCHANGED <<storeVars, wrote, loc, diskVars>>
          /\ Goto("c_fail")
    /\ UNCHANGED <<readVars, rateVars, apiVars, extVars, tasks, scan, creating, del, requests, running, queue, produced, embedCalled>>

\* update_task_status(task_id, "completed", progress=100,
\*                    error_message=f"CHUNK_ID:{chunk_id}")
pc_completed ==
    /\ running /\ pc = "c_done"
    /\ tasks' = [update_task_status(tasks, cur, "completed", 100, "CHUNK_ID", None)
                    EXCEPT ![cur].arg = loc.chunk]
    /\ Finish
    /\ UNCHANGED <<sideVars, storeVars, scan, creating, del, requests, running, queue, histVars>>

\* except Exception: update_task_status(task_id, "failed", error_message=str(e))
pc_except ==
    /\ running /\ pc = "c_fail"
    /\ tasks' = fail_task(tasks, cur)
    /\ Finish
    /\ UNCHANGED <<sideVars, storeVars, scan, creating, del, requests, running, queue, histVars>>

WorkerNext ==
    \/ process_loop
    \/ dispatch_task
    \/ pt_get_task
    \/ pt_get_file
    \/ pt_fail_early
    \/ pt_start
    \/ pt_pdf_open
    \/ pt_pdf_callback
    \/ pt_convert_begin
    \/ pt_convert_end
    \/ pt_chunk_begin
    \/ pt_get_chunker
    \/ pt_chunk
    \/ pt_check_api_key
    \/ pt_file_error
    \/ pt_task_failed
    \/ pt_embed
    \/ pt_embed_progress
    \/ pt_write_batch
    \/ pt_write_progress
    \/ pt_file_indexed
    \/ pt_completed
    \/ pt_except_task
    \/ pt_except_file
    \/ pc_get_task
    \/ pc_start
    \/ pc_check_api_key
    \/ pc_embed
    \/ pc_embedded
    \/ pc_write
    \/ pc_completed
    \/ pc_except

\* ------------------------------------------------------- specification
Init ==
    /\ files = [f \in FileIds |-> NoFile]
    /\ chunks = [c \in ChunkIds |-> NoChunk]
    /\ bm25 = [c \in ChunkIds |-> 0]
    /\ vec = [c \in ChunkIds |-> 0]
    /\ nextChunk = 1
    /\ tasks = [t \in TaskIds |-> NoTask]
    /\ scan = 0
    /\ creating = [t \in TaskIds |-> NoCreate]
    /\ del = NoDelete
    /\ requests = 0
    /\ running = FALSE
    /\ pc = "halted"
    /\ cur = 0
    /\ queue = <<>>
    /\ loc = NoLocals
    /\ produced = [t \in TaskIds |-> None]
    /\ wrote = [t \in TaskIds |-> 0]
    /\ embedCalled = [t \in TaskIds |-> FALSE]
    /\ txn = NoTxn
    /\ seen = NoSeen
    /\ clock = 0
    /\ last_request_time = None
    /\ emb = NoEmb
    /\ disk = [f \in FileIds |-> NoDisk]
    /\ prior = [t \in TaskIds |-> NoPrior]
    /\ removed = {}
    /\ payload = NoPayload
    /\ http = NoHttp
    /\ rk = NoRk
    /\ upd = NoUpd
    /\ lim = NoLim
    /\ pool = NoPool
    /\ splitter = NoSplit
    /\ chunking = NoChunking
    /\ rebuild = NoRebuild

Next == RequestNext \/ WorkerNext \/ start \/ stop

Spec == Init /\ [][Next]_vars

\* ------------------------------- the write batch, statement by statement
\* insert_chunks_batch: one INSERT INTO chunks (trigger chunks_ai); its
\* vec_chunks row is only collected in vec_chunks_data
insert_chunk_row(st, f, t, k) ==
    LET c == st.next IN
    [chunks |-> [st.chunks EXCEPT ![c] = [file |-> f, task |-> t, src |-> k, title |-> 0, text |-> 0]],
     bm25 |-> chunks_ai(st.bm25, c),
     vec |-> st.vec,
     next |-> c + 1]

RECURSIVE flush_rows(_, _, _, _, _)
flush_rows(st, f, t, k, last) ==
    IF k > last THEN st
    ELSE flush_rows(insert_chunk_row(st, f, t, k), f, t, k + 1, last)

\* executemany INSERT INTO vec_chunks for the ids of the batch
flush_vecs(v, first, size) ==
    [c \in ChunkIds |-> IF c >= first /\ c < first + size THEN v[c] + 1 ELSE v[c]]

\* database.get_db_cursor: `yield cursor; conn.commit()`: the statements of
\* the with block are committed once, when its body has ended
commit_point_m(rows, vecs, size) == TRUE
commit_point(rows, vecs, size) == rows = size /\ vecs = size

\* the effect of one statement of the block: kept in the open transaction,
\* or written to the store when the block commits
after_statement(t1, size) ==
    IF commit_point(t1.rows, t1.vecs, size)
    THEN LET st == flush_rows([chunks |-> chunks, bm25 |-> bm25, vec |-> vec, next |-> nextChunk],
                              loc.file, cur, loc.wDone + t1.flushed + 1, loc.wDone + t1.rows)
         IN /\ chunks' = st.chunks /\ bm25' = st.bm25 /\ nextChunk' = st.next
            /\ vec' = IF t1.vecs = size THEN flush_vecs(vec, t1.first, size) ELSE vec
            /\ IF t1.rows = size /\ t1.vecs = size
               THEN /\ txn' = NoTxn
                    /\ wrote' = [wrote EXCEPT ![cur] = @ + size]
                    /\ loc' = [loc EXCEPT !.wDone = loc.wDone + size]
                    /\ Goto("w_cb") /\ UNCHANGED queue
               ELSE /\ txn' = [t1 EXCEPT !.flushed = t1.rows]
                    /\ UNCHANGED <<wrote, loc, pc, cur, queue>>
    ELSE /\ txn' = t1
         /\ UNCHANGED <<chunks, bm25, vec, nextChunk, wrote, loc, pc, cur, queue>>

rollback_batch_m ==
    /\ txn' = NoTxn
    /\ LET st == flush_rows([chunks |-> chunks, bm25 |-> bm25, vec |-> vec, next |-> nextChunk],
                            loc.file, cur, loc.wDone + txn.flushed + 1, loc.wDone + txn.rows)
       IN chunks' = st.chunks /\ bm25' = st.bm25 /\ nextChunk' = st.next
    /\ UNCHANGED <<vec, wrote>>
    /\ IF loc.detached THEN Halt ELSE (UNCHANGED <<loc, queue>> /\ Goto("x1"))

\* get_db_cursor: `except Exception: conn.rollback(); raise`
rollback_batch ==
    /\ txn' = NoTxn
    /\ UNCHANGED <<chunks, bm25, vec, nextChunk, wrote>>
    /\ IF loc.detached THEN Halt ELSE (UNCHANGED <<loc, queue>> /\ Goto("x1"))

\* insert_chunks_batch: cursor.execute(INSERT INTO chunks ...) for the next
\* chunk of the batch; the foreign key needs the file row
rw_insert_chunk ==
    /\ pc = "w" /\ (running \/ loc.detached)
    /\ LET size == batch_end(loc.wDone, loc.n) - loc.wDone
       IN /\ txn.rows < size
          /\ \/ /\ FileExists(loc.file)
                /\ after_statement([txn EXCEPT !.rows = @ + 1,
                                               !.first = IF txn.rows = 0 THEN nextChunk ELSE @],
                                   size)
             \/ rollback_batch
    /\ UNCHANGED <<files, tasks, scan, creating, del, requests, running, produced,
                   embedCalled, seen, rateVars, diskVars, apiVars, extVars>>

\* insert_chunks_batch: cursor.executemany(INSERT INTO vec_chunks ...), then
\* the end of the with block
rw_insert_vecs ==
    /\ pc = "w" /\ (running \/ loc.detached)
    /\ LET size == batch_end(loc.wDone, loc.n) - loc.wDone
       IN /\ txn.rows = size /\ txn.vecs = 0
          /\ \/ after_statement([txn EXCEPT !.vecs = size], size)
             \/ rollback_batch
    /\ UNCHANGED <<files, tasks, scan, creating, del, requests, running, produced,
                   embedCalled, seen, rateVars, diskVars, apiVars, extVars>>

\* retrieval: one SELECT on the retrieval connection (bm25_search_node,
\* vector_search_node, get_docs); it reads the committed store
retrieval_read ==
    /\ seen' = [open |-> txn.rows,
                batch |-> Cardinality({c \in ChunkIds :
                              cur # 0 /\ loc.kind = "INGEST" /\ chunks[c].task = cur
                              /\ chunks[c].src > loc.wDone}),
                novec |-> Cardinality({c \in ChunkIds : ChunkExists(c) /\ vec[c] = 0})]
    /\ UNCHANGED <<mainVars, txn, rateVars>>

\* a request thread's transaction waits while the write transaction is open
rw_request == txn.rows = 0 /\ RequestNext

\* the worker, with the write batch taken statement by statement
ReadWorkerNext ==
    \/ process_loop
    \/ dispatch_task
    \/ pt_get_task
    \/ pt_get_file
    \/ pt_fail_early
    \/ pt_start
    \/ pt_pdf_open
    \/ pt_pdf_callback
    \/ pt_convert_begin
    \/ pt_convert_end
    \/ pt_chunk_begin
    \/ pt_get_chunker
    \/ pt_chunk
    \/ pt_check_api_key
    \/ pt_file_error
    \/ pt_task_failed
    \/ pt_embed
    \/ pt_embed_progress
    \/ rw_insert_chunk
    \/ rw_insert_vecs
    \/ pt_write_progress
    \/ pt_file_indexed
    \/ pt_completed
    \/ pt_except_task
    \/ pt_except_file
    \/ pc_get_task
    \/ pc_start
    \/ pc_check_api_key
    \/ pc_embed
    \/ pc_embedded
    \/ pc_write
    \/ pc_completed
    \/ pc_except

ReadNext == rw_request \/ ReadWorkerNext \/ start \/ stop \/ retrieval_read

ReadSpec == Init /\ [][ReadNext]_vars

\* --------------------------------------- embedding requests and the clock
\* RateLimiter.__init__: min_interval = 60.0 / rpm
min_interval == 60 \div rpm

\* process_task: wait_time = retry_delay * (retry + 1)
wait_time_m(retry) == retry_delay
wait_time(retry) == retry_delay * (retry + 1)

\* time passes; a coroutine is resumed at or after the time it asked for
tick ==
    /\ clock < MaxClock
    /\ clock' = clock + 1
    /\ UNCHANGED <<mainVars, readVars, last_request_time, emb>>

\* the worker reaches an embedding request: a batch of an ingest
\* (process_task) or the one text of a chunk-add / chunk-update task
rs_begin ==
    /\ emb.pc = "idle" /\ emb.calls < MaxCalls
    /\ \E kind \in {"INGEST", "CHUNK"} :
          emb' = [emb EXCEPT !.pc = "acquire", !.kind = kind, !.retry = 0, !.attempts = 0,
                             !.err = "none", !.failedAt = None, !.calls = @ + 1,
                             !.task = "processing"]
    /\ UNCHANGED <<mainVars, readVars, clock, last_request_time>>

\* embed_documents(batch) is sent
send(e) == [e EXCEPT !.pc = "wait", !.issued = clock, !.attempts = @ + 1]

\* RateLimiter.acquire: sleep for the rest of min_wait, or grant at once;
\* the call follows the grant
rs_acquire ==
    /\ emb.pc = "acquire"
    /\ IF last_request_time # None /\ clock - last_request_time < min_interval
       THEN /\ emb' = [emb EXCEPT !.pc = "lim_sleep"]
            /\ UNCHANGED last_request_time
       ELSE /\ last_request_time' = clock
            /\ emb' = send(emb)
    /\ UNCHANGED <<mainVars, readVars, clock>>

\* RateLimiter.acquire: after asyncio.sleep(min_wait - elapsed_since_last),
\* last_request_time = time.time()
rs_granted ==
    /\ emb.pc = "lim_sleep" /\ clock >= last_request_time + min_interval
    /\ last_request_time' = clock
    /\ emb' = send(emb)
    /\ UNCHANGED <<mainVars, readVars, clock>>

\* embed_documents returns
rs_success ==
    /\ emb.pc = "wait"
    /\ emb' = [emb EXCEPT !.pc = "idle", !.task = "embedded", !.lastOk = emb.issued,
                          !.gap = IF emb.lastOk = None THEN None ELSE emb.issued - emb.lastOk]
    /\ UNCHANGED <<mainVars, readVars, clock, last_request_time>>

\* embed_documents raises: process_task retries "429" / "403" / "rate limit"
\* while retry < max_retries - 1 and re-raises anything else; the chunk
\* handlers have no retry
rs_failure ==
    /\ emb.pc = "wait"
    /\ \E err \in {"rate", "other"} :
          IF emb.kind = "INGEST" /\ err = "rate" /\ emb.retry < max_retries - 1
          THEN emb' = [emb EXCEPT !.pc = "backoff", !.err = err, !.failedAt = clock]
          ELSE emb' = [emb EXCEPT !.pc = "raised", !.err = err, !.failedAt = clock]
    /\ UNCHANGED <<mainVars, readVars, clock, last_request_time>>

\* process_task: after asyncio.sleep(wait_time) the next turn of the retry
\* loop calls embed_documents again
rs_retry ==
    /\ emb.pc = "backoff" /\ clock >= emb.failedAt + wait_time(emb.retry)
    /\ emb' = [send(emb) EXCEPT !.retry = @ + 1]
    /\ UNCHANGED <<mainVars, readVars, clock, last_request_time>>

\* except Exception: update_task_status(task_id, "failed", ...)
rs_except ==
    /\ emb.pc = "raised"
    /\ emb' = [emb EXCEPT !.pc = "idle", !.task = "failed"]
    /\ UNCHANGED <<mainVars, readVars, clock, last_request_time>>

RateNext ==
    \/ tick
    \/ rs_begin
    \/ rs_acquire
    \/ rs_granted
    \/ rs_success
    \/ rs_failure
    \/ rs_retry
    \/ rs_except

RateSpec == Init /\ [][RateNext]_vars

\* ------------------------------------- the task payload in error_message
\* Text is a sequence of characters; "CHUNK_ADD", "CHUNK_UPDATE", "CHUNK_ID"
\* and the decimal digits of an id are single characters of the alphabet.
Alphabet == {"a", "|"}
Strs == UNION {[1..n -> Alphabet] : n \in 1..MaxStr}
Digits == <<"1", "2">>
str(n) == <<Digits[n]>>
\* int(s): the number, or None for the ValueError
int(s) == IF \E n \in 1..MaxIds : s = str(n)
          THEN CHOOSE n \in 1..MaxIds : s = str(n)
          ELSE None

\* str.startswith
startswith(s, prefix) == Len(s) >= Len(prefix) /\ SubSeq(s, 1, Len(prefix)) = prefix

\* str.split(sep, maxsplit); maxsplit = -1 splits at every separator
RECURSIVE split(_, _, _)
split(s, sep, maxsplit) ==
    IF maxsplit = 0 \/ \A i \in 1..Len(s) : s[i] # sep
    THEN <<s>>
    ELSE LET i == CHOOSE k \in 1..Len(s) : s[k] = sep /\ \A j \in 1..(k - 1) : s[j] # sep
         IN <<SubSeq(s, 1, i - 1)>> \o split(SubSeq(s, i + 1, Len(s)), sep, maxsplit - 1)

\* create_chunk_add_task: f"CHUNK_ADD|{file_id}|{doc_title}|{chunk_text}"
add_task_data(file_id, doc_title, chunk_text) ==
    <<"CHUNK_ADD", "|">> \o str(file_id) \o <<"|">> \o doc_title \o <<"|">> \o chunk_text

\* create_chunk_update_task: f"CHUNK_UPDATE|{chunk_id}|{chunk_text}"
update_task_data(chunk_id, chunk_text) ==
    <<"CHUNK_UPDATE", "|">> \o str(chunk_id) \o <<"|">> \o chunk_text

\* error_message=f"CHUNK_ID:{chunk_id}"
chunk_id_message(chunk_id) == <<"CHUNK_ID", ":">> \o str(chunk_id)

\* chunk_tools.create_chunk / chunk_routes.create_chunk -> create_chunk_add_task
ps_create_add ==
    /\ payload.pc = "idle"
    /\ \E file_id \in 1..MaxIds, doc_title \in Strs, chunk_text \in Strs :
          payload' = [NoPayload EXCEPT !.pc = "queued", !.kind = "CHUNK_ADD", !.status = "pending",
                                      !.target = file_id, !.doc_title = doc_title,
                                      !.chunk_text = chunk_text,
                                      !.error_message = add_task_data(file_id, doc_title, chunk_text)]
    /\ UNCHANGED <<storeVars, tasks, scan, creating, del, requests, workerVars, histVars,
                   diskVars, readVars, rateVars, http, extVars>>

\* chunk_tools.update_chunk_content / chunk_routes -> create_chunk_update_task
ps_create_update ==
    /\ payload.pc = "idle"
    /\ \E chunk_id \in 1..MaxIds, chunk_text \in Strs :
          payload' = [NoPayload EXCEPT !.pc = "queued", !.kind = "CHUNK_UPDATE", !.status = "pending",
                                      !.target = chunk_id, !.chunk_text = chunk_text,
                                      !.error_message = update_task_data(chunk_id, chunk_text)]
    /\ UNCHANGED <<storeVars, tasks, scan, creating, del, requests, workerVars, histVars,
                   diskVars, readVars, rateVars, http, extVars>>

\* except Exception as e: update_task_status(task_id, "failed", error_message=str(e))
ps_failed(pl) == [pl EXCEPT !.pc = "done", !.status = "failed", !.error_message = <<"a">>]

\* process_chunk_add_task: the prefix check, parts = split("|", 3), the INSERT
\* with cursor.lastrowid, completed with CHUNK_ID:<lastrowid>
ps_process_add ==
    /\ payload.pc = "queued" /\ payload.kind = "CHUNK_ADD"
    /\ \/ /\ startswith(payload.error_message, <<"CHUNK_ADD", "|">>)
          /\ LET parts == split(payload.error_message, "|", 3)
                 file_id == int(parts[2])
             IN /\ file_id # None
                /\ \E lastrowid \in 1..MaxIds :
                      payload' = [payload EXCEPT
                          !.pc = "done", !.status = "completed",
                          !.row = [id |-> lastrowid, file |-> file_id,
                                   doc_title |-> parts[3], chunk_text |-> parts[4]],
                          !.error_message = chunk_id_message(lastrowid)]
       \/ payload' = ps_failed(payload)
    /\ UNCHANGED <<storeVars, tasks, scan, creating, del, requests, workerVars, histVars,
                   diskVars, readVars, rateVars, http, extVars>>

\* process_chunk_update_task: the prefix check, parts = split("|", 2), the
\* UPDATE of chunk_text, completed with CHUNK_ID:<chunk_id>
ps_process_update ==
    /\ payload.pc = "queued" /\ payload.kind = "CHUNK_UPDATE"
    /\ \/ /\ startswith(payload.error_message, <<"CHUNK_UPDATE", "|">>)
          /\ LET parts == split(payload.error_message, "|", 2)
                 chunk_id == int(parts[2])
             IN /\ chunk_id # None
                /\ payload' = [payload EXCEPT
                       !.pc = "done", !.status = "completed",
                       !.row = [id |-> chunk_id, file |-> 0,
                                doc_title |-> <<>>, chunk_text |-> parts[3]],
                       !.error_message = chunk_id_message(chunk_id)]
       \/ payload' = ps_failed(payload)
    /\ UNCHANGED <<storeVars, tasks, scan, creating, del, requests, workerVars, histVars,
                   diskVars, readVars, rateVars, http, extVars>>

\* task_tools.get_task_status: chunk_id parsed from "CHUNK_ID:<n>"
get_task_status(pl) ==
    [status |-> pl.status,
     chunk_id |-> IF startswith(pl.error_message, <<"CHUNK_ID", ":">>)
                  THEN int(split(pl.error_message, ":", -1)[2])
                  ELSE None]

\* check_task_status(task_id)
ps_check_task_status ==
    /\ payload.pc \in {"queued", "done"}
    /\ payload' = [payload EXCEPT !.reply = get_task_status(payload)]
    /\ UNCHANGED <<storeVars, tasks, scan, creating, del, requests, workerVars, histVars,
                   diskVars, readVars, rateVars, http, extVars>>

\* the next task
ps_next ==
    /\ payload.pc = "done"
    /\ payload' = NoPayload
    /\ UNCHANGED <<storeVars, tasks, scan, creating, del, requests, workerVars, histVars,
                   diskVars, readVars, rateVars, http, extVars>>

PayloadNext ==
    \/ ps_create_add
    \/ ps_create_update
    \/ ps_process_add
    \/ ps_process_update
    \/ ps_check_task_status
    \/ ps_next

PayloadSpec == Init /\ [][PayloadNext]_vars

\* ------------------------------------------------- the two MCP servers
\* settings.mcp.api_key and the Authorization headers a client may send;
\* "Bearer " is the 7-character prefix, taken as one character
api_key == <<"key">>
Headers == {<<>>, <<"Bearer ", "key">>, <<"Bearer ", "other">>, <<"key">>, <<"bearer ", "key">>}
RetrievalTools == {"tools/list", "resolve-keywords", "get-docs"}
IndexTools == {"tools/list", "create_file", "remove_file", "check_task_status"}

\* BearerAuthMiddleware._verify_token
verify_token(authorization, valid_token) ==
    /\ startswith(authorization, <<"Bearer ">>)
    /\ SubSeq(authorization, 2, Len(authorization)) = valid_token

\* app/server.py start_mcp_server / start_index_mcp_server: the modules are
\* imported; retrieval/server.py adds BearerAuthMiddleware when
\* is_mcp_auth_enabled(), indexing/mcp/server.py adds no middleware
mcp_start ==
    /\ ~http.started
    /\ \E is_mcp_auth_enabled \in BOOLEAN :
          http' = [NoHttp EXCEPT !.started = TRUE, !.auth_enabled = is_mcp_auth_enabled,
                                !.retrieval_auth = is_mcp_auth_enabled, !.index_auth = FALSE]
    /\ UNCHANGED <<storeVars, tasks, scan, creating, del, requests, workerVars, histVars,
                   diskVars, readVars, rateVars, payload, extVars>>

\* on_call_tool / on_list_tools: ToolError("Unauthorized: ...") or call_next
middleware(installed, authorization) ==
    IF installed /\ ~verify_token(authorization, api_key) THEN "Unauthorized" ELSE "ok"

received(server, tool, authorization, outcome) ==
    [http EXCEPT !.server = server, !.tool = tool, !.authorization = authorization,
                 !.outcome = outcome, !.seq = 1 - @]

\* piece-kb: tools/list, resolve-keywords, get-docs (reads only)
retrieval_request ==
    /\ http.started
    /\ \E tool \in RetrievalTools, authorization \in Headers :
          http' = received("piece-kb", tool, authorization,
                           middleware(http.retrieval_auth, authorization))
    /\ UNCHANGED <<storeVars, tasks, scan, creating, del, requests, workerVars, histVars,
                   diskVars, readVars, rateVars, payload, extVars>>

\* piece-index: create_file -> file_service.create_empty_file,
\* remove_file -> file_service.delete_file, the other tools read
index_request ==
    /\ http.started
    /\ \E tool \in IndexTools, authorization \in Headers :
          LET outcome == middleware(http.index_auth, authorization) IN
          /\ http' = received("piece-index", tool, authorization, outcome)
          /\ IF outcome = "ok" /\ tool = "create_file" /\ HasFreeFile
             THEN /\ files' = [files EXCEPT ![FreeFile] = [status |-> "empty", orig |-> "none"]]
                  /\ disk' = [disk EXCEPT ![FreeFile] = [work |-> Empty, orig |-> FALSE]]
                  /\ UNCHANGED <<chunks, bm25, vec, tasks>>
             ELSE IF outcome = "ok" /\ tool = "remove_file"
             THEN \E file_id \in FileIds :
                     /\ delete_file_txn(file_id)
                     /\ disk' = IF FileExists(file_id) THEN unlink_files(disk, file_id) ELSE disk
             ELSE UNCHANGED <<files, disk, chunks, bm25, vec, tasks>>
    /\ UNCHANGED <<nextChunk, scan, creating, del, requests, workerVars, histVars, snapVars,
                   readVars, rateVars, payload, extVars>>

AuthNext == mcp_start \/ retrieval_request \/ index_request

AuthSpec == Init /\ [][AuthNext]_vars

\* ------------------------------------------------------------ retrieval
\* The store after the upload of one Markdown file and its ingest with n
\* chunks (the empty store for n = 0), nothing in flight.
Corpus(n) ==
    LET st == insert_rows([chunks |-> [c \in ChunkIds |-> NoChunk], bm25 |-> [c \in ChunkIds |-> 0],
                           vec |-> [c \in ChunkIds |-> 0], next |-> 1], 1, 1, 1, n)
        one(x, y) == [i \in TaskIds |-> IF i = 1 /\ n > 0 THEN x ELSE y]
    IN /\ files = [f \in FileIds |-> IF f = 1 /\ n > 0
                                     THEN [status |-> "indexed", orig |-> "md"] ELSE NoFile]
       /\ chunks = st.chunks /\ bm25 = st.bm25 /\ vec = st.vec /\ nextChunk = st.next
       /\ tasks = one([status |-> "completed", file |-> 1, progress |-> 100,
                       msg |-> "NULL", arg |-> 0], NoTask)
       /\ disk = [f \in FileIds |-> IF f = 1 /\ n > 0
                                    THEN [work |-> Raw, orig |-> TRUE] ELSE NoDisk]
       /\ produced = one(n, None) /\ wrote = one(n, 0) /\ embedCalled = one(TRUE, FALSE)
       /\ running = (n > 0) /\ pc = (IF n > 0 THEN "idle" ELSE "halted")
       /\ scan = 0 /\ creating = [t \in TaskIds |-> NoCreate] /\ del = NoDelete
       /\ requests = 0 /\ cur = 0 /\ queue = <<>> /\ loc = NoLocals
       /\ txn = NoTxn /\ seen = NoSeen /\ clock = 0 /\ last_request_time = None
       /\ emb = NoEmb /\ prior = [t \in TaskIds |-> NoPrior] /\ removed = {}
       /\ payload = NoPayload /\ http = NoHttp

RetrievalInit ==
    /\ \E n \in 0..MaxChunks : Corpus(n)
    /\ rk = NoRk /\ upd = NoUpd /\ lim = NoLim /\ pool = NoPool /\ splitter = NoSplit
    /\ chunking = NoChunking /\ rebuild = NoRebuild

\* chunks.doc_title: the title the chunker gave to the k-th chunk, and whether
\* update_chunk_title has replaced it
doc_title(ch, c) == <<ch[c].src, ch[c].title>>
DocTitles == {doc_title(chunks, c) : c \in {d \in ChunkIds : ChunkExists(d)}}

Injective(fn) == \A i, j \in DOMAIN fn : fn[i] = fn[j] => i = j
\* a result list of one recall path: doc_titles of chunk rows, best first
ResultLists(S) == {l \in UNION {[1..m -> S] : m \in 0..MaxRank} : Injective(l)}
\* hash(str) of this process (PYTHONHASHSEED is random): an order of the titles
Seeds == {h \in [1..MaxChunks -> 1..MaxChunks] : Injective(h)}
hash(seed, t) == 2 * seed[t[1]] + t[2]

Range(l) == {l[i] : i \in DOMAIN l}
\* {title: rank + 1 for rank, item in enumerate(results)}, 0 when absent
rank_of(l, t) == IF t \in Range(l) THEN CHOOSE i \in DOMAIN l : l[i] = t ELSE 0

\* iteration over a set of str: by hash
iterate(S, seed) ==
    IF S = {} THEN <<>>
    ELSE CHOOSE l \in [1..Cardinality(S) -> S] :
            Injective(l) /\ \A i, j \in DOMAIN l : i < j => hash(seed, l[i]) < hash(seed, l[j])

\* list.sort(key=rrf_score, reverse=True): stable
sort_by_score(l) ==
    IF l = <<>> THEN <<>>
    ELSE LET order == CHOOSE o \in [DOMAIN l -> DOMAIN l] :
                         /\ Injective(o)
                         /\ \A i, j \in DOMAIN l : i < j =>
                               \/ l[o[i]].rrf_score > l[o[j]].rrf_score
                               \/ l[o[i]].rrf_score = l[o[j]].rrf_score /\ o[i] < o[j]
         IN [i \in DOMAIN l |-> l[order[i]]]

\* scores are kept as integers: rrf_score * WeightScale * RrfUnit
RECURSIVE Product(_)
Product(r) == IF r = 0 THEN 1 ELSE (rrf_k + r) * Product(r - 1)
RrfUnit == Product(MaxRank)

path_rrf_m(weight, rank) == IF rank = 0 THEN 0 ELSE weight * (RrfUnit \div (rrf_k + rank - 1))

\* (1.0 / (k + rank)) * weight, 0 for a title the path did not return
path_rrf(weight, rank) == IF rank = 0 THEN 0 ELSE weight * (RrfUnit \div (rrf_k + rank))

\* rrf_fusion_three_way
rrf_fusion_three_way(exact_results, bm25_results, vector_results, seed) ==
    LET all_doc_titles == Range(exact_results) \cup Range(bm25_results) \cup Range(vector_results)
        order == iterate(all_doc_titles, seed)
        fused_results ==
            [i \in DOMAIN order |->
                [doc_title |-> order[i],
                 rrf_score |-> path_rrf(exact_weight, rank_of(exact_results, order[i]))
                               + path_rrf(bm25_weight, rank_of(bm25_results, order[i]))
                               + path_rrf(vector_weight, rank_of(vector_results, order[i]))]]
    IN sort_by_score(fused_results)

\* rrf_rerank_node, the branch for one active path: the path's own order
single_path(results, weight) ==
    [i \in DOMAIN results |-> [doc_title |-> results[i], rrf_score |-> path_rrf(weight, i)]]

\* rrf_rerank_node after the check that some path returned something
rrf_rerank_node(e, b, v, seed) ==
    IF b = <<>> /\ v = <<>> THEN single_path(e, exact_weight)
    ELSE IF e = <<>> /\ v = <<>> THEN single_path(b, bm25_weight)
    ELSE IF e = <<>> /\ b = <<>> THEN single_path(v, vector_weight)
    ELSE rrf_fusion_three_way(e, b, v, seed)

\* num / den to the given number of decimals: quotient and remainder
RECURSIVE decimals(_, _, _)
decimals(num, den, digits) ==
    IF digits = 0 THEN [q |-> num \div den, r |-> num % den]
    ELSE LET d == decimals(num, den, digits - 1)
         IN [q |-> 10 * d.q + ((10 * d.r) \div den), r |-> (10 * d.r) % den]

\* round(x, 4) of x = num / den, half to even, in units of 1 / ConfidenceScale
round4(num, den) ==
    LET d == decimals(num, den, ConfidenceDigits)
    IN IF 2 * d.r > den \/ (2 * d.r = den /\ d.q % 2 = 1) THEN d.q + 1 ELSE d.q

\* output_node: round(rrf_score / max_rrf, 4) with max_rrf = 1.0 / (rrf_k + 1)
confidence(rrf_score) == round4(rrf_score * (rrf_k + 1), WeightScale * RrfUnit)

\* output_node: the top final_top_k titles and their confidence_scores
output_node(fused_results) ==
    LET top_k_results == SubSeq(fused_results, 1, Min(Len(fused_results), final_top_k))
    IN [error |-> "none",
        keywords |-> [i \in DOMAIN top_k_results |-> top_k_results[i].doc_title],
        confidence_scores |-> {<<top_k_results[i].doc_title, confidence(top_k_results[i].rrf_score)>> :
                                  i \in DOMAIN top_k_results}]

\* resolve_keywords_tool after resolve_database_keywords returned: keywords
\* are cut to max_results, the other keys of the result are returned as is
resolve_keywords_tool(result, max_results) ==
    IF max_results # 0 /\ max_results < Len(result.keywords)
    THEN [result EXCEPT !.keywords = SubSeq(result.keywords, 1, max_results)]
    ELSE result

\* the max_results of a call: the default 20 or a smaller number
MaxResults == {1, 20}

\* resolve_database_keywords: raise Exception(final_state["error"])
raised(error) == [error |-> error, keywords |-> <<>>, confidence_scores |-> {}]

retrieval_execute_m == vec' = [c \in ChunkIds |-> 0] /\ UNCHANGED <<files, chunks, bm25, nextChunk, tasks>>

\* retrieval/db.py get_db_cursor: a cursor of the query_only connection, the
\* statements are SELECTs, nothing is committed
retrieval_execute == UNCHANGED <<files, chunks, bm25, vec, nextChunk, tasks>>

rkFrame == <<scan, creating, del, requests, workerVars, histVars, diskVars, readVars, rateVars,
             apiVars, upd, lim, pool, splitter, chunking, rebuild>>

\* app/server.py start_mcp_server: the retrieval process (re)starts
rk_start ==
    /\ rk.pc = "idle" /\ Len(rk.results) < MaxCalls
    /\ \E seed \in Seeds : seed # rk.seed /\ rk' = [rk EXCEPT !.seed = seed]
    /\ UNCHANGED <<storeVars, tasks, rkFrame>>

\* resolve_keywords_tool: the first call brings a query (whether it yields a
\* token, what each recall path finds for it in this store); a repeated call
\* brings the same query.  Only the last reply of get_docs_tool is kept.
rk_resolve ==
    /\ rk.pc = "idle" /\ rk.seed # <<>> /\ Len(rk.results) < MaxCalls
    /\ IF rk.results = <<>>
       THEN \E tokens \in BOOLEAN, e \in ResultLists(DocTitles), b \in ResultLists(DocTitles),
               v \in ResultLists(DocTitles), max_results \in MaxResults :
               /\ tokens \/ (e = <<>> /\ b = <<>> /\ v = <<>>)
               /\ rk' = [NoRk EXCEPT !.pc = "preprocess", !.seed = rk.seed, !.tokens = tokens,
                                     !.exact = e, !.bm25 = b, !.vector = v,
                                     !.max_results = max_results]
       ELSE rk' = [rk EXCEPT !.pc = "preprocess", !.error = "none", !.fused = <<>>]
    /\ UNCHANGED <<storeVars, tasks, rkFrame>>

\* preprocess_node: tokenize_query; no token is an error
rk_preprocess ==
    /\ rk.pc = "preprocess"
    /\ rk' = [rk EXCEPT !.pc = "search",
                        !.error = IF rk.tokens THEN "none" ELSE "no tokens"]
    /\ retrieval_execute
    /\ UNCHANGED rkFrame

\* exact_match_node, bm25_search_node, vector_search_node: skipped after an
\* error; each may fail (the embedding request, the MATCH syntax)
rk_search ==
    /\ rk.pc = "search"
    /\ \/ rk' = [rk EXCEPT !.pc = "rerank"]
       \/ rk.error = "none" /\ rk' = [rk EXCEPT !.pc = "rerank", !.error = "search failed"]
    /\ retrieval_execute
    /\ UNCHANGED rkFrame

\* rrf_rerank_node
rk_rerank ==
    /\ rk.pc = "rerank"
    /\ rk' = IF rk.error # "none" THEN [rk EXCEPT !.pc = "output"]
             ELSE IF rk.exact = <<>> /\ rk.bm25 = <<>> /\ rk.vector = <<>>
             THEN [rk EXCEPT !.pc = "output", !.error = "no results"]
             ELSE [rk EXCEPT !.pc = "output",
                             !.fused = rrf_rerank_node(rk.exact, rk.bm25, rk.vector, rk.seed)]
    /\ UNCHANGED <<storeVars, tasks, rkFrame>>

\* output_node, the return of resolve_database_keywords and the reply of
\* resolve_keywords_tool
rk_output ==
    /\ rk.pc = "output"
    /\ rk' = [rk EXCEPT !.pc = "idle",
                        !.results = Append(@, IF rk.error # "none" THEN raised(rk.error)
                                              ELSE IF rk.fused = <<>> THEN raised("no fused results")
                                              ELSE resolve_keywords_tool(output_node(rk.fused),
                                                                         rk.max_results))]
    /\ UNCHANGED <<storeVars, tasks, rkFrame>>

\* get_docs: rows WHERE c.doc_title IN (...), with COUNT(*) OVER and
\* ROW_NUMBER() OVER (PARTITION BY c.file_id ORDER BY c.id) on those rows
get_docs(ch, doc_titles) ==
    LET rows == {c \in ChunkIds : ch[c].file # 0 /\ doc_title(ch, c) \in doc_titles}
        partition(c) == {d \in rows : ch[d].file = ch[c].file}
        last(t) == CHOOSE c \in rows : doc_title(ch, c) = t
                       /\ \A d \in rows : doc_title(ch, d) = t => d <= c
    IN {[doc_title |-> doc_title(ch, c), chunk_id |-> c, file_id |-> ch[c].file,
         total_chunks_in_file |-> Cardinality(partition(c)),
         chunk_index_in_file |-> Cardinality({d \in partition(c) : d <= c})] :
           c \in {last(t) : t \in {doc_title(ch, d) : d \in rows}}}

\* get_docs_tool: at most 3 titles, documents and not_found
rk_get_docs ==
    /\ rk.pc = "idle" /\ rk.seed # <<>> /\ rk.results = <<>>
    /\ \E doc_titles \in SUBSET (DocTitles \cup {<<0, 0>>}) :
          /\ doc_titles # {} /\ Cardinality(doc_titles) <= MaxDocs
          /\ LET documents == get_docs(chunks, doc_titles)
             IN rk' = [rk EXCEPT !.requested = doc_titles, !.documents = documents,
                                 !.not_found = doc_titles \ {d.doc_title : d \in documents}]
    /\ retrieval_execute
    /\ UNCHANGED rkFrame

RetrievalNext ==
    \/ rk_start
    \/ rk_resolve
    \/ rk_preprocess
    \/ rk_search
    \/ rk_rerank
    \/ rk_output
    \/ rk_get_docs

RetrievalSpec == RetrievalInit /\ [][RetrievalNext]_vars

\* ------------------------------------------- chunk rows and their vectors
Texts == 1..MaxText
\* serialize_float32(embedding): the bytes of an embedding
Blobs == 1..MaxBlob

usFrame == <<baseVars, rk, lim, pool, splitter, chunking, rebuild>>

execute_m(u, c, row) == [u EXCEPT !.work[c] = row, !.rows[c] = row]

\* cursor.execute / conn.execute of a statement that writes row c: the change
\* is in the connection's open transaction
execute(u, c, row) == [u EXCEPT !.work[c] = row]

\* ChunkRepository.insert, insert_chunks_batch, process_chunk_add_task:
\* INSERT INTO chunks (file_id, doc_title, chunk_text, embedding)
us_insert_chunk ==
    /\ upd.pc = "idle"
    /\ \E c \in 1..MaxIds, text \in Texts, blob \in Blobs :
          /\ upd.rows[c] = NoRow
          /\ upd' = [execute(upd, c, [text |-> text, embedding |-> blob, vector |-> 0])
                        EXCEPT !.pc = "ins_vec", !.op = "insert", !.chunk = c,
                               !.text = text, !.blob = blob]
    /\ UNCHANGED usFrame

\* ... INSERT INTO vec_chunks (chunk_id, embedding) with the same blob
us_insert_vec ==
    /\ upd.pc = "ins_vec"
    /\ \/ upd' = [execute(upd, upd.chunk, [upd.work[upd.chunk] EXCEPT !.vector = upd.blob])
                      EXCEPT !.pc = "exit"]
       \/ upd' = [upd EXCEPT !.pc = "raise"]
    /\ UNCHANGED usFrame

\* process_chunk_update_task: the payload is parsed and the new text embedded
us_update_task ==
    /\ upd.pc = "idle"
    /\ \E c \in 1..MaxIds, text \in Texts, blob \in Blobs :
          /\ upd.rows[c].text # text
          /\ upd' = [upd EXCEPT !.pc = "select", !.op = "task", !.chunk = c,
                                !.text = text, !.blob = blob]
    /\ UNCHANGED usFrame

\* process_chunk_update_task: SELECT file_id FROM chunks WHERE id = ?
us_select ==
    /\ upd.pc = "select"
    /\ upd' = [upd EXCEPT !.pc = IF upd.work[upd.chunk] = NoRow THEN "close" ELSE "upd_chunk"]
    /\ UNCHANGED usFrame

\* ChunkRepository.update_content(chunk_id, chunk_text, embedding)
us_update_content ==
    /\ upd.pc = "idle"
    /\ \E c \in 1..MaxIds, text \in Texts, blob \in Blobs :
          /\ upd.rows[c].text # text
          /\ upd' = [upd EXCEPT !.pc = "upd_chunk", !.op = "repository", !.chunk = c,
                                !.text = text, !.blob = blob]
    /\ UNCHANGED usFrame

\* UPDATE chunks SET chunk_text = ?, embedding = ? WHERE id = ?
us_update_chunk ==
    /\ upd.pc = "upd_chunk"
    /\ \/ upd' = [(IF upd.work[upd.chunk] = NoRow THEN upd
                    ELSE execute(upd, upd.chunk, [upd.work[upd.chunk] EXCEPT !.text = upd.text,
                                                        !.embedding = upd.blob]))
                      EXCEPT !.pc = "upd_vec"]
       \/ upd' = [upd EXCEPT !.pc = IF upd.op = "task" THEN "close" ELSE "raise"]
    /\ UNCHANGED usFrame

\* UPDATE vec_chunks SET embedding = ? WHERE chunk_id = ?
us_update_vec ==
    /\ upd.pc = "upd_vec"
    /\ \/ upd' = [(IF upd.work[upd.chunk] = NoRow THEN upd
                    ELSE execute(upd, upd.chunk, [upd.work[upd.chunk] EXCEPT !.vector = upd.blob]))
                      EXCEPT !.pc = IF upd.op = "task" THEN "commit" ELSE "exit"]
       \/ upd' = [upd EXCEPT !.pc = IF upd.op = "task" THEN "close" ELSE "raise"]
    /\ UNCHANGED usFrame

\* ChunkRepository.delete_with_vectors: DELETE FROM vec_chunks WHERE chunk_id = ?
us_delete_vec ==
    /\ upd.pc = "idle"
    /\ \E c \in 1..MaxIds :
          /\ upd.rows[c] # NoRow
          /\ upd' = [execute(upd, c, [upd.work[c] EXCEPT !.vector = 0])
                        EXCEPT !.pc = "del_chunk", !.op = "delete", !.chunk = c,
                               !.text = 0, !.blob = 0]
    /\ UNCHANGED usFrame

\* ... DELETE FROM chunks WHERE id = ?
us_delete_chunk ==
    /\ upd.pc = "del_chunk"
    /\ \/ upd' = [execute(upd, upd.chunk, NoRow) EXCEPT !.pc = "exit"]
       \/ upd' = [upd EXCEPT !.pc = "raise"]
    /\ UNCHANGED usFrame

\* conn.commit(): at the end of a `with get_db_cursor()` block, or called by
\* process_chunk_update_task
us_commit ==
    /\ upd.pc \in {"exit", "commit"}
    /\ upd' = [upd EXCEPT !.rows = upd.work, !.pc = IF upd.pc = "commit" THEN "close" ELSE "idle"]
    /\ UNCHANGED usFrame

\* get_db_cursor: except Exception: conn.rollback(); process_chunk_update_task:
\* finally: conn.close(), which drops what was not committed
us_rollback ==
    /\ upd.pc \in {"raise", "close"}
    /\ upd' = [upd EXCEPT !.work = upd.rows, !.pc = "idle"]
    /\ UNCHANGED usFrame

UpdateNext ==
    \/ us_insert_chunk
    \/ us_insert_vec
    \/ us_update_task
    \/ us_select
    \/ us_update_content
    \/ us_update_chunk
    \/ us_update_vec
    \/ us_delete_vec
    \/ us_delete_chunk
    \/ us_commit
    \/ us_rollback

UpdateSpec == Init /\ [][UpdateNext]_vars

\* ------------------------------------------------ RateLimiter.acquire
lmFrame == <<storeVars, tasks, scan, creating, del, requests, workerVars, histVars, diskVars,
             readVars, apiVars, emb, rk, upd, pool, splitter, chunking, rebuild>>

locked_m(l) == FALSE

\* asyncio.Lock.locked()
locked(l) == l.lock # 0

\* a coroutine calls `await rate_limiter.acquire(1)`
lm_acquire(a) ==
    /\ lim.pc[a] = "idle" /\ lim.grants < MaxGrants
    /\ lim' = [lim EXCEPT !.pc[a] = "lock"]
    /\ UNCHANGED <<lmFrame, clock, last_request_time>>

\* async with self._lock: entered when the lock is free
lm_enter(a) ==
    /\ lim.pc[a] = "lock" /\ ~locked(lim)
    /\ lim' = [lim EXCEPT !.pc[a] = "check", !.lock = a]
    /\ UNCHANGED <<lmFrame, clock, last_request_time>>

\* last_request_time = time.time(); the lock is released, acquire returns
grant(a, slept) ==
    /\ last_request_time' = clock
    /\ lim' = [lim EXCEPT !.pc[a] = "idle", !.wake[a] = None, !.lock = 0, !.grants = @ + 1,
                          !.waited = slept,
                          !.gap = IF last_request_time = None THEN @
                                  ELSE IF @ = None THEN clock - last_request_time
                                  ELSE Min(@, clock - last_request_time)]

\* elapsed_since_last < min_wait: asyncio.sleep(min_wait - elapsed_since_last)
lm_check(a) ==
    /\ lim.pc[a] = "check"
    /\ IF last_request_time # None /\ clock - last_request_time < min_interval
       THEN /\ lim' = [lim EXCEPT !.pc[a] = "sleep",
                                   !.wake[a] = clock + (min_interval - (clock - last_request_time))]
            /\ UNCHANGED last_request_time
       ELSE grant(a, FALSE)
    /\ UNCHANGED <<lmFrame, clock>>

\* the sleep has ended: not before the time asked for
lm_wake(a) ==
    /\ lim.pc[a] = "sleep" /\ clock >= lim.wake[a]
    /\ grant(a, TRUE)
    /\ UNCHANGED <<lmFrame, clock>>

LimiterNext ==
    \/ tick
    \/ \E a \in 1..MaxAcquirers : lm_acquire(a)
    \/ \E a \in 1..MaxAcquirers : lm_enter(a)
    \/ \E a \in 1..MaxAcquirers : lm_check(a)
    \/ \E a \in 1..MaxAcquirers : lm_wake(a)

LimiterSpec == Init /\ [][LimiterNext]_vars

\* ------------------------------------------- get_db_cursor and the pool
plFrame == <<baseVars, rk, upd, lim, splitter, chunking, rebuild>>

return_connection_m(q, conn) == q

\* ConnectionPool.return_connection: self._pool.put(conn)
return_connection(q, conn) == Append(q, conn)

\* get_db_cursor: conn = _connection_pool.get_connection(); an empty pool
\* raises RuntimeError after the timeout, before the try block
pl_get_connection(t) ==
    /\ pool.th[t].pc = "idle" /\ pool.th[t].uses < MaxCalls
    /\ IF pool.queue # <<>>
       THEN pool' = [pool EXCEPT !.queue = Tail(@),
                                 !.th[t] = [@ EXCEPT !.pc = "body", !.conn = Head(pool.queue),
                                                     !.raised = FALSE, !.ended = "none"]]
       ELSE pool' = [pool EXCEPT !.th[t] = [@ EXCEPT !.raised = TRUE, !.ended = "exhausted",
                                                     !.uses = @ + 1]]
    /\ UNCHANGED plFrame

\* the body of the with block: statements on the cursor, which open a
\* transaction when they write; the body ends or raises
pl_body(t) ==
    /\ pool.th[t].pc = "body"
    /\ \E writes \in BOOLEAN, raises \in BOOLEAN :
          pool' = [pool EXCEPT !.txn[pool.th[t].conn] = IF writes THEN "open" ELSE @,
                               !.th[t] = [@ EXCEPT !.pc = IF raises THEN "except" ELSE "commit",
                                                   !.raised = raises]]
    /\ UNCHANGED plFrame

\* yield cursor; conn.commit(), which may raise (database is locked)
pl_commit(t) ==
    /\ pool.th[t].pc = "commit"
    /\ \/ pool' = [pool EXCEPT !.txn[pool.th[t].conn] = "none",
                                !.th[t] = [@ EXCEPT !.pc = "finally", !.ended = "commit"]]
       \/ pool' = [pool EXCEPT !.th[t] = [@ EXCEPT !.pc = "except", !.raised = TRUE]]
    /\ UNCHANGED plFrame

\* except Exception: conn.rollback(); raise
pl_except(t) ==
    /\ pool.th[t].pc = "except"
    /\ pool' = [pool EXCEPT !.txn[pool.th[t].conn] = "none",
                            !.th[t] = [@ EXCEPT !.pc = "finally", !.ended = "rollback"]]
    /\ UNCHANGED plFrame

\* finally: cursor.close(); _connection_pool.return_connection(conn)
pl_finally(t) ==
    /\ pool.th[t].pc = "finally"
    /\ pool' = [pool EXCEPT !.queue = return_connection(@, pool.th[t].conn),
                            !.th[t] = [@ EXCEPT !.pc = "idle", !.conn = 0, !.uses = @ + 1]]
    /\ UNCHANGED plFrame

PoolNext ==
    \/ \E t \in 1..MaxThreads : pl_get_connection(t)
    \/ \E t \in 1..MaxThreads : pl_body(t)
    \/ \E t \in 1..MaxThreads : pl_commit(t)
    \/ \E t \in 1..MaxThreads : pl_except(t)
    \/ \E t \in 1..MaxThreads : pl_finally(t)

PoolSpec == Init /\ [][PoolNext]_vars

\* ------------------------------------------------------ recursive_split
\* Text is a sequence of characters, positions count from 0 as in the source.
Whitespace == {" ", "\n"}
\* SEPARATORS, highest priority first; the full-width marks by their names
SEPARATORS == << <<"\n", "\n">>, <<"\n">>, <<"ideographic full stop">>,
                <<"fullwidth exclamation mark">>, <<"fullwidth question mark">>,
                <<".">>, <<"!">>, <<"?">>, <<"fullwidth semicolon">>, <<";">>,
                <<"fullwidth comma">>, <<",">>, <<" ">> >>

at(t, i) == IF i >= 0 /\ i < Len(t) THEN t[i + 1] ELSE "none"
SetMin(S) == CHOOSE x \in S : \A y \in S : x <= y
SetMax(S) == CHOOSE x \in S : \A y \in S : x >= y

\* text[b:e].strip() as the slice that is left, <<b, b>> when nothing is
strip(t, b, e) ==
    LET ink == {i \in b..(e - 1) : at(t, i) \notin Whitespace}
    IN IF ink = {} THEN <<b, b>> ELSE <<SetMin(ink), SetMax(ink) + 1>>

\* find_table_boundaries: runs of lines that start and end with | and have
\* two of them; a run ends where the next other line starts, or with the text
find_table_boundaries(t) ==
    LET starts == {0} \cup {i + 1 : i \in {j \in 0..(Len(t) - 1) : at(t, j) = "\n"}}
        line_end(q) == SetMin({i \in q..(Len(t) - 1) : at(t, i) = "\n"} \cup {Len(t)})
        is_table_line(q) ==
            LET stripped == strip(t, q, line_end(q))
            IN /\ stripped[1] < stripped[2]
               /\ at(t, stripped[1]) = "|" /\ at(t, stripped[2] - 1) = "|"
               /\ Cardinality({i \in q..(line_end(q) - 1) : at(t, i) = "|"}) >= 2
        table_lines == {q \in starts : is_table_line(q)}
        first_lines == {q \in table_lines :
                           q = 0 \/ SetMax({r \in starts : r < q}) \notin table_lines}
        table_end(q) == LET after == {r \in starts \ table_lines : r > q}
                        IN IF after = {} THEN Len(t) ELSE SetMin(after)
    IN {<<q, table_end(q)>> : q \in first_lines}

\* re.finditer(r'\$\$[\s\S]+?\$\$', text), from position i on
RECURSIVE block_formulas(_, _)
block_formulas(t, i) ==
    LET pairs == {j \in 0..(Len(t) - 2) : at(t, j) = "$" /\ at(t, j + 1) = "$"}
        opens == {j \in pairs : j >= i /\ \E k \in pairs : k >= j + 3}
    IN IF opens = {} THEN {}
       ELSE LET j == SetMin(opens)
                k == SetMin({c \in pairs : c >= j + 3})
            IN {<<j, k + 2>>} \cup block_formulas(t, k + 2)

\* re.finditer(r'(?<!\$)\$(?!\$)([^\$\n]+?)\$(?!\$)', text), from i on
RECURSIVE inline_formulas(_, _)
inline_formulas(t, i) ==
    LET close(j) == SetMin({k \in (j + 1)..Len(t) : at(t, k) \in {"$", "\n", "none"}})
        opens == {j \in i..(Len(t) - 1) :
                     /\ at(t, j) = "$" /\ at(t, j - 1) # "$" /\ at(t, j + 1) # "$"
                     /\ close(j) >= j + 2 /\ at(t, close(j)) = "$"
                     /\ at(t, close(j) + 1) # "$"}
    IN IF opens = {} THEN {}
       ELSE LET j == SetMin(opens)
            IN {<<j, close(j) + 1>>} \cup inline_formulas(t, close(j) + 1)

find_formula_boundaries(t) == block_formulas(t, 0) \cup inline_formulas(t, 0)

\* is_safe_split_point: for start, end in boundaries: if start < pos < end
is_safe_split_point(pos, boundaries) ==
    \A b \in boundaries : ~(b[1] < pos /\ pos < b[2])

\* search_range.rfind(sep) in text[offset:][search_start:search_end], or -1
rfind(t, offset, search_start, search_end, sep) ==
    LET found == {q \in search_start..(search_end - Len(sep)) :
                     \A k \in 1..Len(sep) : at(t, offset + q + k - 1) = sep[k]}
    IN IF found = {} THEN -1 ELSE SetMax(found)

\* score(item): near the target the separator's priority decides, further
\* away the distance
score(item) == IF item[2] < NearDistance THEN <<0, item[1], item[2]>>
               ELSE <<1, item[2], item[1]>>
tuple_less(x, y) ==
    \/ x[1] < y[1]
    \/ x[1] = y[1] /\ x[2] < y[2]
    \/ x[1] = y[1] /\ x[2] = y[2] /\ x[3] < y[3]

\* find_split_point(text[offset:], target_size, offset)
find_split_point(t, target_size, offset, boundaries) ==
    LET search_start == Max(0, target_size - SearchWindow)
        search_end == Min(target_size, Len(t) - offset)
        actual_pos(priority) ==
            LET q == rfind(t, offset, search_start, search_end, SEPARATORS[priority])
            IN IF q = -1 THEN -1 ELSE search_start + (q - search_start) + Len(SEPARATORS[priority])
        candidates ==
            {<<priority - 1, target_size - actual_pos(priority), actual_pos(priority)>> :
                priority \in {r \in DOMAIN SEPARATORS :
                    /\ actual_pos(r) > 0 /\ actual_pos(r) < Len(t) - offset
                    /\ is_safe_split_point(offset + actual_pos(r), boundaries)}}
        steps == {q \in (Max(0, target_size - FallbackWindow) + 1)..target_size :
                     /\ (target_size - q) % FallbackStep = 0
                     /\ is_safe_split_point(offset + q, boundaries)}
    IN IF candidates # {}
       THEN (CHOOSE c \in candidates :
                \A d \in candidates : d = c \/ tuple_less(score(c), score(d)))[3]
       ELSE IF steps # {} THEN SetMax(steps)
       ELSE target_size

\* the documents handed to the splitter: prose, a block, prose
Rep(c, n) == [i \in 1..n |-> c]
Prose(n) == [i \in 1..n |-> IF i % 10 = 5 THEN " " ELSE "a"]
RECURSIVE Table(_, _)
Table(rows, width) ==
    IF rows = 1 THEN <<"|">> \o Rep("a", width) \o <<"|">>
    ELSE Table(rows - 1, width) \o <<"\n", "|">> \o Rep("a", width) \o <<"|">>
Formula(n) == <<"$", "$">> \o Rep("a", n) \o <<"$", "$">>
Blocks == {<<>>, Table(4, 48), Table(12, 48), Formula(250)}
Documents == {Prose(before) \o <<"\n">> \o block \o <<"\n">> \o Prose(after) :
                 before \in {300, 500, 700}, block \in Blocks, after \in {100, 500}}
\* chunk_size = 800 (heading chunker) or max_chunk_size of the page, slide
\* and sheet chunkers: int(max_tokens * 0.8 / 1.5) is 800 for max_tokens =
\* 1500 and 273 for max_tokens = 512; overlap = 150 (default) or
\* int(max_chunk_size * 0.1) (sheet chunker)
ChunkSizes == {800, 273}
Overlaps == {150, 80, 27}

spFrame == <<baseVars, rk, upd, lim, pool, chunking, rebuild>>

\* recursive_split(text, chunk_size, overlap) up to the loop
sp_call ==
    /\ splitter.pc = "idle"
    /\ \E doc \in Documents, chunk_size \in ChunkSizes :
       \E overlap \in {o \in Overlaps : o = 150 \/ o = chunk_size \div 10} :
          LET span == strip(doc, 0, Len(doc))
              text == SubSeq(doc, span[1] + 1, span[2])
          IN splitter' =
                IF text = <<>> THEN [NoSplit EXCEPT !.pc = "done"]
                ELSE IF Len(text) <= chunk_size
                THEN [NoSplit EXCEPT !.pc = "done", !.text = text,
                                     !.chunks = << <<0, Len(text)>> >>]
                ELSE [NoSplit EXCEPT !.pc = "loop", !.text = text,
                                     !.boundaries = find_table_boundaries(text)
                                                        \cup find_formula_boundaries(text),
                                     !.chunk_size = chunk_size, !.overlap = overlap]
    /\ UNCHANGED spFrame

\* one turn of `while start < len(text)`
sp_loop ==
    /\ splitter.pc = "loop" /\ Len(splitter.chunks) < MaxPieces
    /\ LET text == splitter.text
           from == splitter.start
           end == from + splitter.chunk_size
           remaining == strip(text, from, Len(text))
           split_point == find_split_point(text, splitter.chunk_size, from, splitter.boundaries)
           actual_end == from + split_point
           chunk == strip(text, from, actual_end)
           back == Max(actual_end - splitter.overlap, 0)
       IN splitter' =
             IF from >= Len(text) THEN [splitter EXCEPT !.pc = "done"]
             ELSE IF end >= Len(text)
             THEN [splitter EXCEPT !.pc = "done",
                      !.chunks = IF remaining[1] < remaining[2] THEN Append(@, remaining) ELSE @]
             ELSE [splitter EXCEPT
                      !.chunks = IF chunk[1] < chunk[2] THEN Append(@, chunk) ELSE @,
                      !.start = IF back <= actual_end - splitter.chunk_size /\ actual_end < Len(text)
                                THEN actual_end ELSE back]
    /\ UNCHANGED spFrame

\* return chunks
sp_return ==
    /\ splitter.pc = "done"
    /\ splitter' = [splitter EXCEPT !.pc = "returned"]
    /\ UNCHANGED spFrame

SplitNext == sp_call \/ sp_loop \/ sp_return

SplitSpec == Init /\ [][SplitNext]_vars

\* C21: resolve-keywords and get-docs leave files, chunks, tasks, the BM25
\* index and the vector index unchanged, whether the call succeeds or fails.
C21_ReadOnly == [][UNCHANGED <<files, chunks, tasks, bm25, vec>>]_vars

\* a failed and a successful resolve-keywords call on a store with chunks
C21_Witness ==
    /\ DocTitles # {}
    /\ \E i, j \in DOMAIN rk.results :
          rk.results[i].error # "none" /\ rk.results[j].keywords # <<>>

\* C22: resolve-keywords on an empty corpus, for a query that yields a token
\* and whose three searches ran, returns an empty keywords result, not an error.
C22_EmptyCorpus ==
    \A i \in DOMAIN rk.results :
        (DocTitles = {} /\ rk.tokens /\ rk.results[i].error # "search failed")
            => rk.results[i] = [error |-> "none", keywords |-> <<>>, confidence_scores |-> {}]

\* first appearance of a title in the exact, BM25 and vector results
insertion_order(e, b, v) ==
    LET be == SelectSeq(b, LAMBDA t : t \notin Range(e))
        ve == SelectSeq(v, LAMBDA t : t \notin Range(e) \cup Range(b))
    IN e \o be \o ve

\* C23: two resolve-keywords calls on the same store with the same query
\* return the same keywords in the same order and the same confidence_scores,
\* and candidates of equal fused score are in insertion order.
C23_Stable ==
    /\ \A i, j \in DOMAIN rk.results :
          (rk.results[i].error = "none" /\ rk.results[j].error = "none")
              => rk.results[i] = rk.results[j]
    /\ \A i, j \in DOMAIN rk.fused :
          (i < j /\ rk.fused[i].rrf_score = rk.fused[j].rrf_score)
              => rank_of(insertion_order(rk.exact, rk.bm25, rk.vector), rk.fused[i].doc_title)
                   < rank_of(insertion_order(rk.exact, rk.bm25, rk.vector), rk.fused[j].doc_title)

\* C24: every document of get-docs carries the number of chunks of its file
\* and its 1-based position among the chunks of its file ordered by chunk id.
C24_FilePosition ==
    \A d \in rk.documents :
        LET of_file == {c \in ChunkIds : chunks[c].file = d.file_id}
        IN /\ d.total_chunks_in_file = Cardinality(of_file)
           /\ d.chunk_index_in_file = Cardinality({c \in of_file : c <= d.chunk_id})

\* C30: every confidence score returned by resolve-keywords lies in [0, 1].
C30_ConfidenceBound ==
    \A i \in DOMAIN rk.results : \A s \in rk.results[i].confidence_scores :
        0 <= s[2] /\ s[2] <= ConfidenceScale

\* a title ranked first by all three paths (score 1) next to a lower one
C30_Witness ==
    \E i \in DOMAIN rk.results : \E s, t \in rk.results[i].confidence_scores :
        s[2] = ConfidenceScale /\ 0 < t[2] /\ t[2] < ConfidenceScale

\* C25: each ingest write batch is one transaction: when writing batch k
\* fails, every chunk, BM25 and vector row of the batches before k remains in
\* the store and no row of batch k is present.
C25_BatchAtomic ==
    [][(pc = "w" /\ pc' \in {"x1", "halted"}) =>
          \A c \in ChunkIds :
             /\ (chunks[c].task = cur /\ chunks[c].src <= loc.wDone)
                   => (chunks'[c] = chunks[c] /\ bm25'[c] = bm25[c] /\ vec'[c] = vec[c])
             /\ ~(chunks'[c].task = cur /\ chunks'[c].src > loc.wDone)
             /\ chunks'[c] = NoChunk => (bm25'[c] = 0 /\ vec'[c] = 0)]_vars

\* the second batch of an ingest has failed and the first one is in the store
C25_Witness ==
    /\ pc = "x1" /\ loc.kind = "INGEST" /\ 0 < loc.wDone /\ loc.wDone < loc.n
    /\ Cardinality({c \in ChunkIds : chunks[c].task = cur /\ bm25[c] = 1 /\ vec[c] = 1}) = loc.wDone

\* every committed chunk row carries the bytes of its vec_chunks row
Mirrored == \A c \in 1..MaxIds : upd.rows[c] # NoRow =>
                (upd.rows[c].embedding # 0 /\ upd.rows[c].embedding = upd.rows[c].vector)

\* a step of a content update changes text, embedding and vector of its chunk
\* together, or no committed row at all
UpdateAtomic ==
    \A c \in 1..MaxIds :
        (upd.op \in {"task", "repository"} /\ upd'.rows[c] # upd.rows[c]) =>
            /\ c = upd.chunk
            /\ upd'.rows[c] = [text |-> upd.text, embedding |-> upd.blob, vector |-> upd.blob]

\* C26: in every committed store state each chunk's embedding bytes in the
\* chunk row equal the bytes in its vector-index row, and a content update
\* changes the chunk text, the chunk embedding and the vector row in one
\* transaction or changes none of them.
C26_EmbeddingMirror == []Mirrored /\ [][UpdateAtomic]_vars

\* a chunk-update task has committed new text and bytes for a chunk, next to
\* a chunk that carries other bytes
C26_Witness ==
    /\ upd.op = "task" /\ upd.pc = "close"
    /\ upd.rows[upd.chunk] = [text |-> upd.text, embedding |-> upd.blob, vector |-> upd.blob]
    /\ \E c \in 1..MaxIds : upd.rows[c] # NoRow /\ upd.rows[c].embedding # upd.blob

\* C27: any two consecutive grants of RateLimiter.acquire are at least
\* 60 / rpm seconds apart, for any number of concurrent acquirers and any
\* arrival times.
C27_GrantSpacing == lim.gap # None => lim.gap >= min_interval

\* two coroutines were inside acquire together and the grant of the second
\* came exactly one interval after the first
C27_Witness ==
    /\ lim.grants >= 2 /\ lim.gap = min_interval /\ lim.waited
    /\ \E a \in 1..MaxAcquirers : lim.pc[a] \in {"lock", "sleep"}

\* C28: a use of the store cursor that raises is rolled back and the error
\* reaches the caller, one that succeeds is committed; either way the
\* connection goes back to the pool with no transaction open, so pooled plus
\* checked-out connections always equal the pool size.
C28_PoolAccounting ==
    LET out == {t \in 1..MaxThreads : pool.th[t].conn # 0}
    IN /\ Len(pool.queue) + Cardinality(out) = PoolSize
       /\ \A i \in DOMAIN pool.queue :
             /\ pool.txn[pool.queue[i]] = "none"
             /\ \A t \in out : pool.th[t].conn # pool.queue[i]
       /\ \A t \in 1..MaxThreads :
             (pool.th[t].pc = "idle" /\ pool.th[t].ended \in {"commit", "rollback"}) =>
                 /\ pool.th[t].conn = 0
                 /\ pool.th[t].raised <=> pool.th[t].ended = "rollback"

\* one use has raised and was rolled back, one was committed, a third thread
\* found the pool empty, and every connection is back in the pool
C28_Witness ==
    /\ Len(pool.queue) = PoolSize
    /\ \E t, u, v \in 1..MaxThreads :
          /\ pool.th[t].pc = "idle" /\ pool.th[t].ended = "rollback" /\ pool.th[t].raised
          /\ pool.th[u].pc = "idle" /\ pool.th[u].ended = "commit"
          /\ pool.th[v].ended = "exhausted"

\* C29: no chunk produced by recursive_split begins or ends inside a
\* Markdown table block or a LaTeX formula span.
C29_ProtectedRegions ==
    \A i \in DOMAIN splitter.chunks : \A b \in splitter.boundaries :
        /\ ~(b[1] < splitter.chunks[i][1] /\ splitter.chunks[i][1] < b[2])
        /\ ~(b[1] < splitter.chunks[i][2] /\ splitter.chunks[i][2] < b[2])

\* The worker is scheduled whenever it has a step to take: the event loop
\* runs the coroutine, and converter, embedding and store calls return.
FairSpec == Spec /\ WF_vars(WorkerNext)

\* ------------------------------------------------------------ the chunkers
\* The converted Markdown, line by line.  A line is a page marker
\* <!-- Page n --> (converter.py), a slide marker <!-- Slide number: n -->,
\* the line ### Notes:, a heading ## n or ### n, a blank line, or text of
\* `size` characters.
Line(kind, n, size) == [kind |-> kind, n |-> n, size |-> size]
TextSizes == {10, 900, 2100, 4400, 9000}
Lines ==
    {Line("page", n, 15) : n \in 1..MaxMarker}
    \cup {Line("slide", n, 24) : n \in 1..MaxMarker}
    \cup {Line("notes", 0, 10), Line("h2", 1, 4), Line("h3", 1, 5), Line("blank", 0, 0)}
    \cup {Line("text", 0, s) : s \in TextSizes}
Contents == UNION {[1..n -> Lines] : n \in 0..MaxLines}
\* original_file_type with its dot, or the suffix of the working file
Extensions == {".pdf", ".PDF", ".pptx", ".xlsx", ".md", ".docx", ".txt", ".csv"}

\* settings.get_chunking_config: int(max_tokens * 0.8 / 1.5)
max_chunk_size == (max_tokens * 8) \div 15

\* len(content): the characters of the lines and the newlines between them
RECURSIVE len(_)
len(content) ==
    IF content = <<>> THEN 0
    ELSE Head(content).size + (IF Len(content) > 1 THEN 1 ELSE 0) + len(Tail(content))

\* str.strip() of a run of lines: the blank lines at both ends go
stripped(content) ==
    LET keep == {i \in DOMAIN content : content[i].kind # "blank"}
    IN IF keep = {} THEN <<>> ELSE SubSeq(content, SetMin(keep), SetMax(keep))

\* list(re.finditer(pattern, content)): the lines the pattern matches, in order
RECURSIVE finditer(_, _, _)
finditer(kinds, content, i) ==
    IF i > Len(content) THEN <<>>
    ELSE (IF content[i].kind \in kinds THEN <<i>> ELSE <<>>) \o finditer(kinds, content, i + 1)

\* content[start:end] with end the next match or len(content)
until_next(content, matches, i) ==
    IF i + 1 <= Len(matches) THEN matches[i + 1] - 1 ELSE Len(content)

RECURSIVE extend(_)
extend(lists) == IF lists = <<>> THEN <<>> ELSE Head(lists) \o extend(Tail(lists))

\* doc_title without the base_name prefix: its form and the numbers in it;
\* page_N is <base_name>_第N页, page_N_part_j is <base_name>_第N页_第j部分,
\* overview is <base_name>_概述, sheet_part_i is <base_name>_<sheet>_第i部分
Title(form, n, j) == [form |-> form, n |-> n, j |-> j]
Chunk(title, chunk_text, part) ==
    [doc_title |-> title, chunk_text |-> chunk_text, part |-> part]

\* recursive_split(text, chunk_size): nothing for blank text, the text itself
\* when it fits, else the cuts of the loop; a cut is named by the text and
\* its index, `parts` being the number of cuts the call made (the first and
\* the last chunk are never blank, so there are at least two)
recursive_split(text, chunk_size, parts) ==
    LET t == stripped(text)
    IN IF t = <<>> THEN <<>>
       ELSE IF len(t) <= chunk_size THEN <<[text |-> t, part |-> 0]>>
       ELSE [j \in 1..parts |-> [text |-> t, part |-> j]]

\* HeadingChunker._split_by_length
split_by_length(content, parts) ==
    LET text_chunks == recursive_split(content, 800, parts)
    IN [i \in DOMAIN text_chunks |->
          Chunk(Title("sub", 0, 0), text_chunks[i].text, text_chunks[i].part)]

\* HeadingChunker._split_large_chunk; ### Notes: is a third-level heading too
split_large_chunk(chunk_content, h2_name, parts) ==
    LET h3_matches == finditer({"h3", "notes"}, chunk_content, 1)
        cut(text, first, rest) ==
            LET text_chunks == recursive_split(text, 800, parts)
            IN [j \in DOMAIN text_chunks |->
                  Chunk(IF j = 1 THEN first ELSE rest, text_chunks[j].text, text_chunks[j].part)]
        intro_content == stripped(SubSeq(chunk_content, 1, h3_matches[1] - 1))
        intro ==
            IF h3_matches[1] > 1 /\ intro_content # <<>>
            THEN IF len(intro_content) > 800
                 THEN cut(intro_content, Title("h2_sub", h2_name, 0), Title("h2_sub", h2_name, 0))
                 ELSE <<Chunk(Title("h2", h2_name, 0), intro_content, 0)>>
            ELSE <<>>
        section(i) ==
            LET h3_name == chunk_content[h3_matches[i]].n
                h3_content == stripped(SubSeq(chunk_content, h3_matches[i],
                                              until_next(chunk_content, h3_matches, i)))
            IN IF h3_content = <<>> THEN <<>>
               ELSE IF len(h3_content) > 800
               THEN cut(h3_content, Title("h2_h3", h2_name, h3_name),
                        Title("h2_h3_sub", h2_name, h3_name))
               ELSE <<Chunk(Title("h2_h3", h2_name, h3_name), h3_content, 0)>>
    IN IF h3_matches = <<>>
       THEN cut(chunk_content, Title("h2_sub", h2_name, 0), Title("h2_sub", h2_name, 0))
       ELSE intro \o extend([i \in DOMAIN h3_matches |-> section(i)])

\* HeadingChunker.chunk
heading_chunk(content, parts) ==
    LET h2_matches == finditer({"h2"}, content, 1)
        intro_content == stripped(SubSeq(content, 1, h2_matches[1] - 1))
        intro ==
            IF h2_matches[1] > 1 /\ intro_content # <<>>
            THEN <<Chunk(Title("overview", 0, 0), intro_content, 0)>>
            ELSE <<>>
        section(i) ==
            LET h2_name == content[h2_matches[i]].n
                chunk_content == stripped(SubSeq(content, h2_matches[i],
                                                 until_next(content, h2_matches, i)))
            IN IF chunk_content = <<>> THEN <<>>
               ELSE IF len(chunk_content) > 2000
               THEN split_large_chunk(chunk_content, h2_name, parts)
               ELSE <<Chunk(Title("h2", h2_name, 0), chunk_content, 0)>>
    IN IF h2_matches = <<>>
       THEN split_by_length(content, parts)
       ELSE intro \o extend([i \in DOMAIN h2_matches |-> section(i)])

\* the body shared by SlideChunker.chunk and PageChunker.chunk: one chunk per
\* marker, recursive_split for a slide or page longer than max_chunk_size
numbered(content, n, parts) ==
    IF len(content) > max_chunk_size
    THEN LET sub_chunks == recursive_split(content, max_chunk_size, parts)
         IN [j \in DOMAIN sub_chunks |->
               Chunk(Title("page_N_part_j", n, j), sub_chunks[j].text, sub_chunks[j].part)]
    ELSE <<Chunk(Title("page_N", n, 0), content, 0)>>

\* SlideChunker._remove_notes_section: re.search finds the first ### Notes:
remove_notes_section_m(content) == stripped(content)
remove_notes_section(content) ==
    LET match == finditer({"notes"}, content, 1)
    IN IF match # <<>> THEN stripped(SubSeq(content, 1, match[1] - 1))
       ELSE stripped(content)

\* SlideChunker.chunk
slide_chunk(content, parts) ==
    LET slide_matches == finditer({"slide"}, content, 1)
        slide(i) ==
            LET slide_num == content[slide_matches[i]].n
                slide_content == stripped(SubSeq(content, slide_matches[i] + 1,
                                                 until_next(content, slide_matches, i)))
                body == remove_notes_section(slide_content)
            IN IF slide_content = <<>> \/ body = <<>> THEN <<>>
               ELSE numbered(body, slide_num, parts)
    IN IF slide_matches = <<>>
       THEN heading_chunk(content, parts)
       ELSE extend([i \in DOMAIN slide_matches |-> slide(i)])

\* PageChunker.chunk
page_chunk(content, parts) ==
    LET page_matches == finditer({"page"}, content, 1)
        page(i) ==
            LET page_num == content[page_matches[i]].n
                page_content == stripped(SubSeq(content, page_matches[i] + 1,
                                                until_next(content, page_matches, i)))
            IN IF page_content = <<>> THEN <<>>
               ELSE numbered(page_content, page_num, parts)
    IN IF page_matches = <<>>
       THEN heading_chunk(content, parts)
       ELSE extend([i \in DOMAIN page_matches |-> page(i)])

\* SheetChunker.chunk and _split_large_sheet
sheet_chunk(content, parts) ==
    LET sheet_matches == finditer({"h2"}, content, 1)
        sheet(i) ==
            LET sheet_name == content[sheet_matches[i]].n
                sheet_content == stripped(SubSeq(content, sheet_matches[i] + 1,
                                                 until_next(content, sheet_matches, i)))
                text_chunks == recursive_split(sheet_content, max_chunk_size, parts)
            IN IF sheet_content = <<>> THEN <<>>
               ELSE IF len(sheet_content) > max_chunk_size * 2
               THEN [j \in DOMAIN text_chunks |->
                       Chunk(Title("sheet_part_i", sheet_name, j),
                             text_chunks[j].text, text_chunks[j].part)]
               ELSE <<Chunk(Title("sheet", sheet_name, 0), sheet_content, 0)>>
    IN IF sheet_matches = <<>>
       THEN heading_chunk(content, parts)
       ELSE extend([i \in DOMAIN sheet_matches |-> sheet(i)])

\* str.lower() of an extension
lower(file_extension) == IF file_extension = ".PDF" THEN ".pdf" ELSE file_extension

\* ChunkerFactory._chunker_map
chunker_map ==
    [ext \in {".pptx", ".xlsx", ".pdf", ".md", ".docx", ".txt"} |->
        CASE ext = ".pptx" -> "SlideChunker"
          [] ext = ".xlsx" -> "SheetChunker"
          [] OTHER -> "HeadingChunker"]

\* ChunkerFactory.get_chunker
get_chunker(file_extension) ==
    IF lower(file_extension) \in DOMAIN chunker_map
    THEN chunker_map[lower(file_extension)]
    ELSE "ValueError"

\* chunker.chunk(content, base_name) of the instance the factory returned
chunk(chunker, content, parts) ==
    CASE chunker = "SlideChunker" -> slide_chunk(content, parts)
      [] chunker = "SheetChunker" -> sheet_chunk(content, parts)
      [] chunker = "PageChunker" -> page_chunk(content, parts)
      [] OTHER -> heading_chunk(content, parts)

ckFrame == <<baseVars, rk, upd, lim, pool, splitter, rebuild>>

\* process_task: the content was converted, file_extension is chosen
ck_call ==
    /\ chunking.pc = "idle"
    /\ \E file_extension \in Extensions, content \in Contents :
          chunking' = [NoChunking EXCEPT !.pc = "factory",
                                         !.file_extension = file_extension,
                                         !.content = content]
    /\ UNCHANGED ckFrame

\* process_task: chunker = ChunkerFactory.get_chunker(file_extension)
ck_get_chunker ==
    /\ chunking.pc = "factory"
    /\ LET chunker == get_chunker(chunking.file_extension)
       IN chunking' = [chunking EXCEPT !.chunker = chunker,
                                       !.pc = IF chunker = "ValueError" THEN "failed" ELSE "chunk"]
    /\ UNCHANGED ckFrame

\* process_task: chunks = chunker.chunk(content, base_name)
ck_chunk ==
    /\ chunking.pc = "chunk"
    /\ \E parts \in 2..MaxParts :
          chunking' = [chunking EXCEPT !.pc = "done", !.parts = parts,
                                       !.chunks = chunk(chunking.chunker, chunking.content, parts)]
    /\ UNCHANGED ckFrame

\* process_task goes on with the chunks, or fails the task on ValueError
ck_return ==
    /\ chunking.pc \in {"done", "failed"}
    /\ chunking' = [chunking EXCEPT !.pc = "returned"]
    /\ UNCHANGED ckFrame

ChunkNext == ck_call \/ ck_get_chunker \/ ck_chunk \/ ck_return
ChunkSpec == Init /\ [][ChunkNext]_vars

\* --------------------------------------- rebuild_working_file in two threads
\* One file, its chunk rows <<id, doc_title, chunk_text>> as committed, and its
\* working copy.  The request thread (asyncio.to_thread of chunk_handlers, the
\* API's thread pool) runs update_chunk_title and delete_chunk; the worker
\* runs the chunk-add and chunk-update tasks.  Each of them commits its
\* change and then calls rebuild_working_file, which reads the file row,
\* reads the chunk rows and writes the rendering.
Threads == {"request", "worker"}
rbFrame == <<baseVars, rk, upd, lim, pool, splitter, chunking>>

ids(rows) == {rows[i][1] : i \in DOMAIN rows}
set_title(rows, c) == [i \in DOMAIN rows |-> IF rows[i][1] = c THEN <<c, 1, rows[i][3]>> ELSE rows[i]]
set_text(rows, c) == [i \in DOMAIN rows |-> IF rows[i][1] = c THEN <<c, rows[i][2], 1>> ELSE rows[i]]
without(rows, c) == SelectSeq(rows, LAMBDA r : r[1] # c)

\* the call rebuild_working_file(file_id) that follows the commit
committed(t, rows) ==
    rebuild' = [rebuild EXCEPT !.rows = rows, !.ops = @ + 1, !.th[t].pc = "get_file"]

\* file_service.create_empty_file: the row and an empty working file
rb_create_empty_file ==
    /\ rebuild.file = "none"
    /\ rebuild' = [rebuild EXCEPT !.file = "present", !.work = Empty]
    /\ UNCHANGED rbFrame

\* process_chunk_add_task: INSERT INTO chunks / vec_chunks, commit
rb_add_chunk ==
    /\ rebuild.file = "present" /\ rebuild.th["worker"].pc = "idle" /\ rebuild.ops < MaxOps
    /\ rebuild' = [rebuild EXCEPT !.rows = Append(@, <<rebuild.next, 0, 0>>),
                                  !.next = @ + 1, !.ops = @ + 1,
                                  !.th["worker"].pc = "get_file"]
    /\ UNCHANGED rbFrame

\* process_chunk_update_task: UPDATE chunks SET chunk_text, embedding; commit
rb_update_chunk(c) ==
    /\ rebuild.file = "present" /\ rebuild.th["worker"].pc = "idle" /\ rebuild.ops < MaxOps
    /\ \E i \in DOMAIN rebuild.rows : rebuild.rows[i] = <<c, rebuild.rows[i][2], 0>>
    /\ committed("worker", set_text(rebuild.rows, c))
    /\ UNCHANGED rbFrame

\* update_chunk_title: UPDATE chunks SET doc_title, commit
rb_update_chunk_title(c) ==
    /\ rebuild.file = "present" /\ rebuild.th["request"].pc = "idle" /\ rebuild.ops < MaxOps
    /\ \E i \in DOMAIN rebuild.rows : rebuild.rows[i] = <<c, 0, rebuild.rows[i][3]>>
    /\ committed("request", set_title(rebuild.rows, c))
    /\ UNCHANGED rbFrame

\* delete_chunk: delete_file when the chunk is the last one, else the two
\* DELETEs and the commit
rb_delete_chunk(c) ==
    /\ rebuild.file = "present" /\ rebuild.th["request"].pc = "idle" /\ rebuild.ops < MaxOps
    /\ c \in ids(rebuild.rows)
    /\ IF Len(rebuild.rows) = 1
       THEN rebuild' = [rebuild EXCEPT !.file = "gone", !.rows = <<>>, !.work = NoWork,
                                       !.ops = @ + 1]
       ELSE committed("request", without(rebuild.rows, c))
    /\ UNCHANGED rbFrame

\* rebuild_working_file: file_info = get_file_by_id(file_id), return without it
rb_get_file(t) ==
    /\ rebuild.th[t].pc = "get_file"
    /\ rebuild' = [rebuild EXCEPT !.th[t].pc = IF rebuild.file = "present" THEN "get_chunks"
                                               ELSE "idle"]
    /\ UNCHANGED rbFrame

\* rebuild_working_file: chunks = get_chunks_by_file_id(file_id)
rb_get_chunks(t) ==
    /\ rebuild.th[t].pc = "get_chunks"
    /\ rebuild' = [rebuild EXCEPT !.th[t].pc = "write_text", !.th[t].chunks = rebuild.rows]
    /\ UNCHANGED rbFrame

\* rebuild_working_file: working_file_path.write_text of the rendering ("" for
\* no chunks); the file is created when it is not there
rb_write_text(t) ==
    /\ rebuild.th[t].pc = "write_text"
    /\ rebuild' = [rebuild EXCEPT !.th[t].pc = "idle", !.th[t].chunks = <<>>,
                                  !.work = Rendered(rebuild.th[t].chunks)]
    /\ UNCHANGED rbFrame

RebuildNext ==
    \/ rb_create_empty_file
    \/ rb_add_chunk
    \/ \E c \in 1..MaxOps : rb_update_chunk(c)
    \/ \E c \in 1..MaxOps : rb_update_chunk_title(c)
    \/ \E c \in 1..MaxOps : rb_delete_chunk(c)
    \/ \E t \in Threads : rb_get_file(t)
    \/ \E t \in Threads : rb_get_chunks(t)
    \/ \E t \in Threads : rb_write_text(t)
RebuildSpec == Init /\ [][RebuildNext]_vars

\* ---------------------------------------------------------------- claims
Status(t) == tasks[t].status
Terminal(t) == Status(t) \in {"completed", "failed"}
\* an ingest task is the one process_task handles; only such a task has a file_id
IngestRun == cur # 0 /\ loc.kind = "INGEST"

\* C1: in every committed store state each chunk row has exactly one BM25
\* row and exactly one vector row with its id, and no BM25 or vector row
\* exists for an id without a chunk row.
C1_TriIndexCoherence ==
    \A c \in ChunkIds :
        /\ ChunkExists(c) => bm25[c] = 1 /\ vec[c] = 1
        /\ ~ChunkExists(c) => bm25[c] = 0 /\ vec[c] = 0

\* a chunk written by a task is stored, retitled, while another was deleted
C1_Witness ==
    \E c, d \in ChunkIds :
        /\ ChunkExists(c) /\ chunks[c].title = 1 /\ bm25[c] = 1 /\ vec[c] = 1
        /\ d < nextChunk /\ ~ChunkExists(d)

\* C2: every status change of a task is one of: created pending,
\* pending -> processing, processing -> completed, processing -> failed.
C2_Lifecycle ==
    [][\A t \in TaskIds :
          tasks'[t].status # tasks[t].status =>
              <<tasks[t].status, tasks'[t].status>> \in
                  {<<"none", "pending">>, <<"pending", "processing">>,
                   <<"processing", "completed">>, <<"processing", "failed">>}]_vars

\* C3: at most one task is in status processing at any time.
C3_OneProcessing == Cardinality({t \in TaskIds : Status(t) = "processing"}) <= 1

\* C4: while the worker runs, every pending task eventually reaches
\* completed or failed.
C4_PendingDispatched ==
    \A t \in TaskIds :
        (Status(t) = "pending" /\ running) ~> (Terminal(t) \/ ~running)

\* a task went through the worker to completion while the worker is running
C4_Witness == \E t \in TaskIds : Status(t) = "completed" /\ running /\ pc = "next"

\* C5: a task left in processing by an interrupted run is eventually taken
\* out of processing by the worker that runs afterwards.
Leftover(t) == Status(t) = "processing" /\ running /\ cur # t
C5_LeftoverHandled ==
    \A t \in TaskIds : Leftover(t) ~> (Status(t) # "processing" \/ ~running)

\* C6: a task is not dispatched while a task created before it is pending.
C6_CreatedOrder ==
    [][\A a, b \in TaskIds :
          (a < b /\ Status(a) = "pending" /\ Status(b) = "pending")
              => ~(cur # b /\ cur' = b)]_vars

\* C7: an ingest task the worker has left failed has a non-empty error text
\* and its file, if it exists, is in status error.
C7_FailedIngestMarksFile ==
    \A t \in TaskIds :
        (Status(t) = "failed" /\ cur # t /\ tasks[t].file # NULL /\ FileExists(tasks[t].file))
            => (files[tasks[t].file].status = "error" /\ tasks[t].msg # "NULL")

\* rows of task t still stored, and their order
RowsOf(t) == {c \in ChunkIds : chunks[c].task = t}
SourceOrdered(t) ==
    \A c, d \in RowsOf(t) : (c < d) <=> (chunks[c].src < chunks[d].src)

\* C8 as stated: when an ingest task is marked completed its file is indexed
\* and the file's chunks are exactly the chunker's output, in source order.
C8_CompletedExact ==
    [][(IngestRun /\ tasks'[cur].status = "completed" /\ tasks[cur].status # "completed") =>
          /\ FileExists(loc.file) /\ files[loc.file].status = "indexed"
          /\ ChunksOf(loc.file) = RowsOf(cur)
          /\ Cardinality(ChunksOf(loc.file)) = produced[cur]
          /\ SourceOrdered(cur)]_vars

\* C8 amended: when an ingest task is marked completed the task has committed
\* exactly one row per chunk the chunker produced, its stored rows belong to
\* its file with ids increasing in source order, and the file, if it still
\* exists, is already indexed.
C8_CompletedWritten ==
    [][(IngestRun /\ tasks'[cur].status = "completed" /\ tasks[cur].status # "completed") =>
          /\ FileExists(loc.file) => files[loc.file].status = "indexed"
          /\ wrote[cur] = produced[cur]
          /\ \A c \in RowsOf(cur) : chunks[c].file = loc.file /\ chunks[c].src \in 1..produced[cur]
          /\ SourceOrdered(cur)]_vars

\* an ingest of MaxChunks chunks completed with all its rows stored
C8_Witness ==
    \E t \in TaskIds :
        /\ Status(t) = "completed" /\ tasks[t].msg = "NULL"
        /\ produced[t] = MaxChunks /\ Cardinality(RowsOf(t)) = MaxChunks

\* C9: when the chunker produced no chunk, no embedding call is made and no
\* row is written for the task, the task is never completed, and when the
\* worker returns from the task it is failed with the no-valid-chunks
\* message and its file, if it exists, is in status error.
C9_NoChunks ==
    /\ [](\A t \in TaskIds :
            produced[t] = 0 =>
                /\ ~embedCalled[t] /\ wrote[t] = 0 /\ RowsOf(t) = {}
                /\ Status(t) # "completed")
    /\ [][(IngestRun /\ produced[cur] = 0 /\ cur' # cur /\ running') =>
             /\ tasks'[cur].status = "failed" /\ tasks'[cur].msg = "NoChunks"
             /\ files'[loc.file].status \in {"gone", "error"}]_vars

\* the chunker returned no chunk and the task has been failed for it
C9_Witness ==
    \E t \in TaskIds :
        /\ produced[t] = 0 /\ Status(t) = "failed" /\ tasks[t].msg = "NoChunks"
        /\ tasks[t].file # NULL /\ files[tasks[t].file].status = "error"

\* C10: the progress of an ingest task never decreases and stays in 0..100;
\* it is 5 when the task becomes processing, at most 15 during conversion,
\* 20..30 during chunking, 30..80 during embedding, 85..100 during writing,
\* and 100 when the task becomes completed.
C10_Progress ==
    [][IngestRun =>
          LET old == tasks[cur].progress
              new == tasks'[cur].progress
              changed == new # old
          IN /\ new >= old /\ new \in 0..100
             /\ (tasks'[cur].status = "processing" /\ tasks[cur].status # "processing") => new = 5
             /\ (changed /\ pc \in {"pdf_cb", "c10", "c15"}) => new \in 5..15
             /\ (changed /\ pc \in {"k20", "k25", "k30"}) => new \in 20..30
             /\ (changed /\ pc = "e_prog") => new \in 30..80
             /\ (changed /\ pc = "w_cb") => new \in 85..100
             /\ tasks'[cur].status = "completed" => new = 100]_vars

\* an ingest of a PDF ran through every stage and completed at 100
C10_Witness ==
    \E t \in TaskIds :
        /\ Status(t) = "completed" /\ tasks[t].msg = "NULL" /\ tasks[t].progress = 100
        /\ produced[t] = MaxChunks /\ wrote[t] = MaxChunks

\* C11: a retrieval statement never sees a row of a write batch whose
\* transaction is still open, and every chunk row it sees has its vector
\* row: the store it reads is the one before or after each whole batch.
C11_WholeBatches == seen.batch = 0 /\ seen.novec = 0

\* a retrieval statement ran while the second batch of an ingest was open
C11_Witness ==
    /\ seen.open > 0 /\ txn.rows = seen.open
    /\ pc = "w" /\ loc.wDone > 0 /\ wrote[cur] = loc.wDone

\* C12: once the processor has stopped and its loop has exited, no task is
\* left in status processing.
C12_StopRecordsState ==
    (~running /\ pc = "halted") => \A t \in TaskIds : Status(t) # "processing"

\* C13: any two consecutive successful embedding calls of the worker are
\* sent at least 60/RPM seconds apart.
C13_RateLimitHonored == emb.gap = None \/ emb.gap >= min_interval

\* C14: an embedding batch is attempted at most max_retries times; a failed
\* attempt is followed by a retry only for a rate-limit error of an ingest
\* batch, and the n-th retry is sent no sooner than 5 * n seconds after the
\* failure; any other error and the third rate-limit failure are raised,
\* and a raised error fails the task.
C14_Retry ==
    /\ [](emb.attempts <= max_retries)
    /\ [][/\ (emb.pc = "wait" /\ emb'.pc = "backoff") =>
                (emb'.err = "rate" /\ emb.kind = "INGEST" /\ emb.attempts < max_retries)
          /\ (emb.pc = "backoff" /\ emb'.pc = "wait") =>
                clock >= emb.failedAt + retry_delay * emb.attempts
          /\ (emb.pc = "wait" /\ emb'.pc \notin {"wait", "idle"}
                /\ (emb'.err = "other" \/ emb.attempts = max_retries)) => emb'.pc = "raised"
          /\ (emb.pc = "raised" /\ emb'.pc # "raised") => emb'.task = "failed"]_vars

\* the third attempt of a batch hit the rate limit again and failed the task
C14_Witness ==
    /\ emb.attempts = max_retries /\ emb.err = "rate" /\ emb.task = "failed"
    /\ clock >= emb.failedAt /\ emb.failedAt >= 3 * retry_delay

\* P3 for one file of a store
FileStatusOk(fs, ch, f) ==
    /\ (\E c \in ChunkIds : ch[c].file = f) <=> fs[f].status = "indexed"
    /\ fs[f].status = "empty" => (fs[f].orig = "none" /\ \A c \in ChunkIds : ch[c].file # f)

\* C15: right after a task is marked completed and right after a delete has
\* been carried out, every file that exists has a chunk iff its status is
\* indexed, and is empty only with no chunk and created blank.
C15_FileStatus ==
    [][((cur # 0 /\ tasks'[cur].status = "completed" /\ tasks[cur].status # "completed")
          \/ (del.chunk # 0 /\ del'.chunk = 0)
          \/ (\E f \in FileIds : files[f].status # "gone" /\ files'[f].status = "gone"))
        => \A f \in FileIds :
              files'[f].status \notin {"none", "gone"} => FileStatusOk(files', chunks', f)]_vars

\* C16: when delete_chunk removes the only chunk left of a file whose ingest
\* completed, the file row, every chunk, chunks_fts and vec_chunks row of the
\* file, the working file and the original file are gone after the call.
Ingested(f) == \E t \in TaskIds : Status(t) = "completed" /\ tasks[t].file = f /\ wrote[t] > 0
AddedBy(t) ==
    /\ Status(t) = "completed" /\ tasks[t].msg = "CHUNK_ID"
    /\ prior[t].chunk # 0 /\ tasks[t].arg = prior[t].chunk
AfterAdd(t) ==
    LET f == prior[t].file
        now == get_chunks_by_file_id(chunks, f, 1)
    IN /\ FileExists(f)
       /\ now = prior[t].rows \o <<<<prior[t].chunk, 0, 0>>>>
       /\ disk[f].work = Rendered(now)
C17_AddRemoveRestores ==
    [][\A t \in TaskIds :
         (/\ AddedBy(t) /\ AfterAdd(t)
          /\ del.chunk = prior[t].chunk /\ del'.chunk = 0
          /\ del.remaining = Len(prior[t].rows) + 1)
         => /\ FileExists(prior[t].file)'
            /\ get_chunks_by_file_id(chunks', prior[t].file, 1) = prior[t].rows
            /\ disk'[prior[t].file].work = prior[t].work]_vars

\* C18: at the step that completes a mutation of a file's chunk set (the
\* ingest task or a chunk-add / chunk-update task turns completed, or
\* update_chunk_title or delete_chunk returns), with no task running and no
\* delete_chunk in flight afterwards, the working file of the file, if the
\* file still exists, is the rendering of its chunks in id order (the empty
\* file when it has none).
IngestCompletes(f) ==
    /\ IngestRun /\ loc.file = f
    /\ Status(cur) # "completed" /\ tasks'[cur].status = "completed"
ChunkMutationCompletes(f) ==
    \/ /\ cur # 0 /\ loc.kind \in {"CHUNK_ADD", "CHUNK_UPDATE"}
       /\ Status(cur) # "completed" /\ tasks'[cur].status = "completed"
       /\ f = (IF loc.kind = "CHUNK_ADD" THEN loc.arg ELSE chunks[loc.chunk].file)
    \/ del.chunk # 0 /\ del'.chunk = 0 /\ del.file = f
    \/ \E c \in ChunkIds : chunks[c].file = f /\ chunks'[c].file = f
                            /\ chunks'[c].title # chunks[c].title
Reconciled(f) == disk[f].work = Rendered(get_chunks_by_file_id(chunks, f, 1))
C18_WorkingCopyRendered ==
    [][\A f \in FileIds :
         ((IngestCompletes(f) \/ ChunkMutationCompletes(f))
          /\ FileExists(f)' /\ cur' = 0 /\ del'.chunk = 0)
         => Reconciled(f)']_vars

\* C19: when a chunk-add or chunk-update task is completed, its error_message
\* is CHUNK_ID:<n>, n is the id of the row the task inserted or updated, that
\* row holds the submitted chunk_text (and, for an add, the submitted
\* doc_title and file), and check_task_status on it returns n as chunk_id.
C19_ChunkIdReported ==
    payload.status = "completed" =>
        /\ payload.row.id # 0
        /\ payload.error_message = chunk_id_message(payload.row.id)
        /\ payload.row.chunk_text = payload.chunk_text
        /\ payload.kind = "CHUNK_ADD" => payload.row.file = payload.target
        /\ payload.kind = "CHUNK_UPDATE" => payload.row.id = payload.target
        /\ payload.reply.status = "completed" => payload.reply.chunk_id = payload.row.id

\* C20: when authentication is enabled, a tool call or tool-list request to
\* either MCP server whose Authorization header is not "Bearer <api_key>" is
\* answered Unauthorized and the files, chunks, indexes, tasks and disk files
\* are left as they were.
Request == http.started /\ http'.seq # http.seq
C20_Unauthorized ==
    [][(Request /\ http.auth_enabled /\ http'.authorization # <<"Bearer ">> \o api_key)
       => /\ http'.outcome = "Unauthorized"
          /\ UNCHANGED <<storeVars, tasks, disk>>]_vars

\* C31: an ingest whose source extension is .pdf and whose converted Markdown
\* contains page markers is chunked by the Page strategy (one chunk per page,
\* titled <base_name>_第N页); the Heading strategy is used for a .pdf only
\* when no page markers are present.  PageChunker.chunk is that strategy: it
\* falls back to the headings when it finds no marker.
C31_PdfByPage ==
    (chunking.pc = "done" /\ lower(chunking.file_extension) = ".pdf")
        => chunking.chunks = page_chunk(chunking.content, chunking.parts)

\* the slides of the content, what slide i shows (the lines after its marker
\* up to the next marker, cut before the first ### Notes: line, without the
\* blank lines at both ends), and the slides that show something
Slides == finditer({"slide"}, chunking.content, 1)
Shown(i) ==
    LET last == until_next(chunking.content, Slides, i)
        notes == {k \in Slides[i] + 1 .. last : chunking.content[k].kind = "notes"}
    IN stripped(SubSeq(chunking.content, Slides[i] + 1,
                       IF notes = {} THEN last ELSE SetMin(notes) - 1))
Shows == SelectSeq([i \in DOMAIN Slides |-> i], LAMBDA i : Shown(i) # <<>>)
SlideNumber(k) == chunking.content[Slides[Shows[k]]].n
BySlide == chunking.pc = "done" /\ chunking.chunker = "SlideChunker" /\ Slides # <<>>

\* C32, as stated: the Slide strategy yields one chunk per non-empty slide, in
\* slide order, titled <base_name>_第N页 with N the slide number, whose text
\* is the slide's content with everything after the ### Notes: marker
\* dropped; a slide that is empty after dropping notes yields no chunk.
C32_OnePerSlide ==
    BySlide =>
        chunking.chunks =
            [k \in DOMAIN Shows |-> Chunk(Title("page_N", SlideNumber(k), 0), Shown(Shows[k]), 0)]

\* C32, amended: that holds for a slide of at most max_chunk_size characters;
\* a longer slide yields, in its place, the chunks recursive_split cuts from
\* its content, titled <base_name>_第N页_第j部分 with j counting from 1.
C32_SlidesAndParts ==
    BySlide =>
        chunking.chunks =
            extend([k \in DOMAIN Shows |->
                      IF len(Shown(Shows[k])) <= max_chunk_size
                      THEN <<Chunk(Title("page_N", SlideNumber(k), 0), Shown(Shows[k]), 0)>>
                      ELSE [j \in 1..chunking.parts |->
                              Chunk(Title("page_N_part_j", SlideNumber(k), j), Shown(Shows[k]), j)]])
\* a slide numbered 2 whose notes are dropped
C32_Witness ==
    /\ BySlide
    /\ chunking.content = <<Line("slide", 2, 24), Line("text", 0, 10), Line("notes", 0, 10)>>
    /\ chunking.chunks = <<Chunk(Title("page_N", 2, 0), <<Line("text", 0, 10)>>, 0)>>

\* C33: a task is never dispatched by the worker before its creator has
\* attached its payload: when the worker takes a task, the creator's second
\* write (file_id for an ingest, CHUNK_ADD| or CHUNK_UPDATE| for a chunk task)
\* is done and the handler chosen is the one of the task's kind.
C33_AttachedBeforeDispatch ==
    [][(cur' # 0 /\ cur' # cur)
          => /\ creating[cur'] = NoCreate
             /\ loc'.kind = IF tasks[cur'].msg \in {"CHUNK_ADD", "CHUNK_UPDATE"}
                            THEN tasks[cur'].msg ELSE "INGEST"]_vars

\* C34: once a task is completed or failed its status never changes again.
C34_TerminalStable ==
    [][\A t \in TaskIds :
          tasks[t].status \in {"completed", "failed"} => tasks'[t].status = tasks[t].status]_vars

\* C35: remove_chunk deletes the whole file only if, at the moment the file
\* is deleted, the chunk being removed is the file's only chunk (so a chunk
\* that a chunk-add task committed after the count check is not lost).
C35_LastChunkOnly ==
    [][(del.chunk # 0 /\ del' = NoDelete
        /\ FileExists(del.file) /\ files'[del.file].status \in {"none", "gone"})
          => ChunksOf(del.file) \subseteq {del.chunk}]_vars

\* C36: when a chunk delete or title update of a request thread and a
\* chunk-add or chunk-update task of the worker on the same file have both
\* finished, the working copy on disk is the rendering of the file's chunk
\* rows: a rebuild computed from an older chunk set never overwrites a newer
\* one.
C36_WorkingCopyFinal ==
    (rebuild.file = "present" /\ \A t \in Threads : rebuild.th[t].pc = "idle")
        => rebuild.work = Rendered(rebuild.rows)

\* C37: if an embedding batch of an ingest task fails (after its retries), no
\* chunk, BM25 or vector row of the file has been written by the task: while
\* the task is in its embedding loop it has written nothing, and its write
\* batches run only with every embedding batch done.
Unwritten(t) ==
    /\ wrote[t] = 0
    /\ \A c \in ChunkIds : chunks[c].task = t => (bm25[c] = 0 /\ vec[c] = 0 /\ chunks[c].file = 0)
EmbeddingFails == pc = "e_call" /\ pc' = "x1"
C37_EmbedBeforeWrite ==
    /\ [](cur # 0 => /\ pc \in {"e_call", "e_prog"} => Unwritten(cur)
                     /\ pc \in {"w", "w_cb"} => loc.eDone = loc.n)
    /\ [][EmbeddingFails => Unwritten(cur)']_vars
\* the second embedding batch has failed
C37_Witness == pc = "x1" /\ 0 < loc.eDone /\ loc.eDone < loc.n /\ Unwritten(cur)

\* C38: for every title and text accepted by add_chunk and every text
\* accepted by modify_chunk_content, the chunk written by the task has
\* exactly the submitted title and text and belongs to the submitted file or
\* chunk id: encoding the payload into the task row and decoding it in the
\* worker is a round trip.
C38_PayloadRoundTrip ==
    (payload.pc = "done" /\ payload.status = "completed") =>
        /\ payload.row.chunk_text = payload.chunk_text
        /\ payload.kind = "CHUNK_ADD" =>
              (payload.row.doc_title = payload.doc_title /\ payload.row.file = payload.target)
        /\ payload.kind = "CHUNK_UPDATE" => payload.row.id = payload.target

\* C39: recursive_split terminates for every text and every chunk_size and
\* overlap the chunkers pass: each turn of the loop that does not leave it
\* moves start strictly forward.
C39_LoopAdvances ==
    [][(splitter.pc = "loop" /\ splitter'.pc = "loop") =>
           splitter'.start > splitter.start]_vars

\* C40: in every resolve-keywords response the keywords are pairwise
\* distinct titles and confidence_scores has exactly one entry for each
\* returned keyword and none for any other title.
C40_ScoresMatchKeywords ==
    \A i \in DOMAIN rk.results :
        rk.results[i].error = "none" =>
            /\ Injective(rk.results[i].keywords)
            /\ {s[1] : s \in rk.results[i].confidence_scores} = Range(rk.results[i].keywords)
            /\ Cardinality(rk.results[i].confidence_scores) = Len(rk.results[i].keywords)

====
